---- MODULE Spec2Model ----
(***************************************************************************)
(* Revenue-Integrity-Engine: the predicate filter engine                   *)
(* (src/filters/contract_filters.py) over the tables built by              *)
(* records_to_df (src/data_extraction/loaders.py); further down, the       *)
(* flatteners of loaders.py and the batch run of src/main.py with its      *)
(* reports.                                                                *)
(*                                                                         *)
(* A cell is <<>> (pandas' null: None / NaN / NaT) or <<v>> for a value v  *)
(* of one totally ordered type.  A table is a record                       *)
(*   [columns, index, data]                                                *)
(* with `index` the row labels and `data` the rows (functions from the     *)
(* columns to cells), both in row order.  A filter specification is the    *)
(* dict in insertion order: a sequence of items                            *)
(*   [column, isdict, value, ops]                                          *)
(* where a bare condition has isdict = FALSE and its operand in `value`,   *)
(* and an operator mapping has isdict = TRUE and its entries               *)
(*   [op, value, list]                                                     *)
(* in `ops`, in insertion order (`list` is the operand of "in").           *)
(***************************************************************************)
EXTENDS Integers, Sequences, FiniteSets, TLC

VARIABLES pc, df, filters, result

\* the flatteners' run: position, the caller's objects, the argument and
\* segment references, the flattener called, its arguments (the mapping and
\* the table as it was at the call) and what it returned
VARIABLES fpc, heap, cur, seg, fkind, fmap, farg, fout

filterVars == <<pc, df, filters, result>>

flattenVars == <<fpc, heap, cur, seg, fkind, fmap, farg, fout>>

\* the batch run of main(): position, the sorted module names, the loop
\* index, the records, the files under the output directory, the locals of
\* the running use case, and the reports built after the loop
VARIABLES mpc, usecase_modules, mi, results, files,
          ai_response, label_to_df_map, pie_segments,
          executive_report, category_reports, warnings

mainVars == <<mpc, usecase_modules, mi, results, files,
              ai_response, label_to_df_map, pie_segments,
              executive_report, category_reports, warnings>>

\* the files of the use cases: the position in the run order and, for every
\* path written so far, the use cases that wrote it
VARIABLES wi, written

fileVars == <<wi, written>>

\* the segments of one use case: the position, the use case, the tables
\* and dates it works on, the segments it computed or the error raised, and
\* the pie segments handed to its report
VARIABLES upc, ucase, uargs, usegs, upie

segVars == <<upc, ucase, uargs, usegs, upie>>

caseVars == <<fileVars, segVars>>

vars == <<filterVars, flattenVars, mainVars, caseVars>>

\* ------------------------------------------------------------------ bounds
MaxRows == 2
MaxVal == 2

\* ------------------------------------------------------------------ values
Null == <<>>
Val(v) == <<v>>
Values == {Val(v) : v \in 1..MaxVal}
Cells == {Null} \cup Values
Cols == {"Amount", "Status"}

\* --------------------------------------------------------- records_to_df
KeysOf(records) == UNION {DOMAIN records[i] : i \in 1..Len(records)}

DataFrame(records) ==
    [columns |-> KeysOf(records),
     index   |-> [i \in 1..Len(records) |-> i - 1],
     data    |-> [i \in 1..Len(records) |->
                    [c \in KeysOf(records) |->
                        IF c \in DOMAIN records[i] THEN records[i][c] ELSE Null]]]

DropColumns(t, cols) ==
    [columns |-> t.columns \ cols,
     index   |-> t.index,
     data    |-> [i \in 1..Len(t.data) |-> [c \in t.columns \ cols |-> t.data[i][c]]]]

records_to_df(records) ==
    LET t == DataFrame(records)
    IN  IF "attributes" \in t.columns THEN DropColumns(t, {"attributes"}) ELSE t

\* ---------------------------------------------------------- apply_filters
RecognizedOps == {"isna", "notna", "=", "!=", "in", ">=", "<=", ">", "<"}

\* faulty variant: the mask starts all-false
InitMask_AllFalse(t) == [i \in 1..Len(t.index) |-> FALSE]

InitMask(t) == [i \in 1..Len(t.index) |-> TRUE]

Column(t, column) == [i \in 1..Len(t.data) |-> t.data[i][column]]

\* faulty variant: isna compared with its operand, so {isna: False} means notna
SeriesIsna_ReadsOperand(s, value) == [i \in DOMAIN s |-> (s[i] = Null) = (value = <<1>>)]

\* mask &= df[column].isna(): the operand `value` is not read
SeriesIsna(s, value) == [i \in DOMAIN s |-> s[i] = Null]

\* faulty variant: the notna branch calls isna
SeriesNotna_AsIsna(s, value) == [i \in DOMAIN s |-> s[i] = Null]

\* mask &= df[column].notna(): the operand `value` is not read
SeriesNotna(s, value) == [i \in DOMAIN s |-> s[i] # Null]

SeriesEq(s, value) ==
    [i \in DOMAIN s |-> s[i] # Null /\ value # Null /\ s[i] = value]

\* faulty variant: a null cell compares false under != as it does under =
SeriesNe_NullIsFalse(s, value) ==
    [i \in DOMAIN s |-> s[i] # Null /\ value # Null /\ s[i] # value]

SeriesNe(s, value) ==
    [i \in DOMAIN s |-> ~(s[i] # Null /\ value # Null /\ s[i] = value)]

SeriesIsin(s, list) ==
    [i \in DOMAIN s |-> \E j \in 1..Len(list) : list[j] = s[i]]

SeriesGe(s, value) ==
    [i \in DOMAIN s |-> s[i] # Null /\ value # Null /\ s[i][1] >= value[1]]

\* faulty variant: <= evaluated as <
SeriesLe_Strict(s, value) ==
    [i \in DOMAIN s |-> s[i] # Null /\ value # Null /\ s[i][1] < value[1]]

SeriesLe(s, value) ==
    [i \in DOMAIN s |-> s[i] # Null /\ value # Null /\ s[i][1] <= value[1]]

SeriesGt(s, value) ==
    [i \in DOMAIN s |-> s[i] # Null /\ value # Null /\ s[i][1] > value[1]]

SeriesLt(s, value) ==
    [i \in DOMAIN s |-> s[i] # Null /\ value # Null /\ s[i][1] < value[1]]

\* faulty variant: mask = ... in place of mask &= ...
MaskAnd_Overwrite(mask, s) == [i \in DOMAIN mask |-> s[i]]

MaskAnd(mask, s) == [i \in DOMAIN mask |-> mask[i] /\ s[i]]

Running(mask) == [raised |-> "", message |-> "", mask |-> mask]

Raise(kind, message) == [raised |-> kind, message |-> message, mask |-> <<>>]

\* the comparison each branch of the if/elif chain makes on df[column]
OpSeries(s, e) ==
    CASE e.op = "isna"  -> SeriesIsna(s, e.value)
      [] e.op = "notna" -> SeriesNotna(s, e.value)
      [] e.op = "="     -> SeriesEq(s, e.value)
      [] e.op = "!="    -> SeriesNe(s, e.value)
      [] e.op = "in"    -> SeriesIsin(s, e.list)
      [] e.op = ">="    -> SeriesGe(s, e.value)
      [] e.op = "<="    -> SeriesLe(s, e.value)
      [] e.op = ">"     -> SeriesGt(s, e.value)
      [] e.op = "<"     -> SeriesLt(s, e.value)

\* faulty variant: an operator outside the chain is skipped instead of raising
ApplyOp_SkipsUnknown(t, column, e, mask) ==
    IF e.op \notin RecognizedOps
    THEN Running(mask)
    ELSE IF column \notin t.columns
         THEN Raise("KeyError", column)
         ELSE Running(MaskAnd(mask, OpSeries(Column(t, column), e)))

\* faulty variant: a condition on a missing column is false in every row
ApplyOp_MissingIsFalse(t, column, e, mask) ==
    IF e.op \notin RecognizedOps
    THEN Raise("ValueError", e.op)
    ELSE IF column \notin t.columns
         THEN Running([i \in DOMAIN mask |-> FALSE])
         ELSE Running(MaskAnd(mask, OpSeries(Column(t, column), e)))

\* one pass of the inner loop.  The chain tests op first; only a matching
\* branch reads df[column], which raises KeyError for a missing column; the
\* final else raises ValueError without reading the table.
ApplyOp(t, column, e, mask) ==
    IF e.op \notin RecognizedOps
    THEN Raise("ValueError", e.op)
    ELSE IF column \notin t.columns
         THEN Raise("KeyError", column)
         ELSE Running(MaskAnd(mask, OpSeries(Column(t, column), e)))

RECURSIVE ApplyOps(_, _, _, _, _)
ApplyOps(t, column, ops, k, st) ==
    IF st.raised # "" \/ k > Len(ops)
    THEN st
    ELSE ApplyOps(t, column, ops, k + 1, ApplyOp(t, column, ops[k], st.mask))

\* one pass of the outer loop: an operator mapping or a bare value
ApplyCondition(t, item, mask) ==
    IF item.isdict
    THEN ApplyOps(t, item.column, item.ops, 1, Running(mask))
    ELSE IF item.column \notin t.columns
         THEN Raise("KeyError", item.column)
         ELSE Running(MaskAnd(mask, SeriesEq(Column(t, item.column), item.value)))

RECURSIVE ApplyItems(_, _, _, _)
ApplyItems(t, F, k, st) ==
    IF st.raised # "" \/ k > Len(F)
    THEN st
    ELSE ApplyItems(t, F, k + 1, ApplyCondition(t, F[k], st.mask))

Positions(mask) == SelectSeq([i \in 1..Len(mask) |-> i], LAMBDA i : mask[i])

\* df.loc[mask].copy()
Loc(t, mask) ==
    [columns |-> t.columns,
     index   |-> [k \in 1..Len(Positions(mask)) |-> t.index[Positions(mask)[k]]],
     data    |-> [k \in 1..Len(Positions(mask)) |-> t.data[Positions(mask)[k]]]]

Returned(t) ==
    [raised |-> "", message |-> "", columns |-> t.columns, index |-> t.index, data |-> t.data]

Raised(st) ==
    [raised |-> st.raised, message |-> st.message, columns |-> {}, index |-> <<>>, data |-> <<>>]

apply_filters(t, F) ==
    LET st == ApplyItems(t, F, 1, Running(InitMask(t)))
    IN  IF st.raised # "" THEN Raised(st) ELSE Returned(Loc(t, st.mask))

\* ------------------------------------------------------------------ inputs
\* Two columns: "Amount" holds null or any value, "Status" null or one value.
StatusCells == {Null, Val(1)}

RecordSet ==
    UNION {{r \in [S -> Cells] : "Status" \in S => r["Status"] \in StatusCells} :
              S \in SUBSET Cols}

\* the "attributes" object every CRM record carries
WithAttributes(r) ==
    [c \in DOMAIN r \cup {"attributes"} |-> IF c = "attributes" THEN Val(0) ELSE r[c]]

RECURSIVE SeqsUpTo(_, _)
SeqsUpTo(S, n) ==
    IF n = 0 THEN {<<>>}
    ELSE SeqsUpTo(S, n - 1)
         \cup {Append(q, x) : q \in {p \in SeqsUpTo(S, n - 1) : Len(p) = n - 1}, x \in S}

RecordLists == SeqsUpTo(RecordSet, MaxRows)

Entry(op, value, list) == [op |-> op, value |-> value, list |-> list]

\* operands of isna / notna: Python's True and False
PyBools == {Val(0), Val(1)}

UnsupportedEntries == {Entry(op, Val(1), <<>>) : op \in {"~=", "lte"}}

AmountEntries ==
    {Entry(op, b, <<>>) : op \in {"isna", "notna"}, b \in PyBools}
    \cup {Entry(op, v, <<>>) : op \in {"=", "!="}, v \in Cells}
    \cup {Entry(op, v, <<>>) : op \in {">=", "<=", ">", "<"}, v \in Values}
    \cup {Entry("in", Null, l) : l \in {<<>>, <<Null>>} \cup {<<v>> : v \in Values}
                                      \cup {<<Null, v>> : v \in Values}}
    \cup UnsupportedEntries

StatusEntries ==
    {Entry(op, Val(1), <<>>) : op \in {"isna", "notna"}}
    \cup {Entry(op, v, <<>>) : op \in {"=", "!="}, v \in StatusCells}
    \cup {Entry("~=", Val(1), <<>>)}

Bare(column, value) == [column |-> column, isdict |-> FALSE, value |-> value, ops |-> <<>>]

Dict(column, ops) == [column |-> column, isdict |-> TRUE, value |-> Null, ops |-> ops]

AmountConditions ==
    {Bare("Amount", v) : v \in Cells}
    \cup {Dict("Amount", <<>>)}
    \cup {Dict("Amount", <<e>>) : e \in AmountEntries}

StatusConditions ==
    {Bare("Status", v) : v \in StatusCells}
    \cup {Dict("Status", <<>>)}
    \cup {Dict("Status", <<e>>) : e \in StatusEntries}

\* operator mappings with two operators on one column, such as
\* {">=": 1, "<=": 2}, {"=": 1, "~=": 1} or {"lte": 1, ">": 2}
RangeEntries ==
    {e \in AmountEntries : e.op \in {"=", ">=", "<=", ">", "<", "~=", "lte"}}

AmountRanges ==
    {Dict("Amount", <<p[1], p[2]>>) :
        p \in {q \in RangeEntries \X RangeEntries : q[1].op # q[2].op}}

FilterSpecs ==
    {<<>>}
    \cup {<<x>> : x \in AmountConditions \cup StatusConditions \cup AmountRanges}
    \cup {<<x, y>> : x \in AmountConditions, y \in StatusConditions}
    \cup {<<y, x>> : x \in AmountConditions, y \in StatusConditions}

\* ----------------------------------------------------------------- actions
NoResult == [raised |-> "", message |-> "", columns |-> {}, index |-> <<>>, data |-> <<>>]

FilterInit ==
    /\ pc = "start"
    /\ df = records_to_df(<<>>)
    /\ filters = <<>>
    /\ result = NoResult

\* no object is bound yet and no flattener has been called
NoFrame == [index |-> <<>>, parts |-> <<>>]

FlattenInit ==
    /\ fpc = "start"
    /\ heap = [r \in {"T", "S", "out"} |-> DataFrame(<<>>)]
    /\ cur = ""
    /\ seg = ""
    /\ fkind = ""
    /\ fmap = <<>>
    /\ farg = DataFrame(<<>>)
    /\ fout = NoFrame

\* nothing discovered, nothing run, no file written, no report built
NoReport == [built |-> FALSE, rows |-> <<>>, table |-> <<>>]

MainInit ==
    /\ mpc = "start"
    /\ usecase_modules = <<>>
    /\ mi = 1
    /\ results = <<>>
    /\ files = {}
    /\ ai_response = Null
    /\ label_to_df_map = <<>>
    /\ pie_segments = <<>>
    /\ executive_report = NoReport
    /\ category_reports = <<>>
    /\ warnings = {}

\* no use case has written a file
NoSegments == [raised |-> "", segs |-> <<>>]

CaseInit ==
    /\ wi = 1
    /\ written = <<>>
    /\ upc = "start"
    /\ ucase = ""
    /\ uargs = <<>>
    /\ usegs = NoSegments
    /\ upie = [raised |-> "", segments |-> <<>>]

Init == FilterInit /\ FlattenInit /\ MainInit /\ CaseInit

RecordsToDf ==
    /\ pc = "start"
    /\ \E records \in RecordLists, attrs \in BOOLEAN :
          df' = records_to_df(IF attrs
                              THEN [i \in 1..Len(records) |-> WithAttributes(records[i])]
                              ELSE records)
    /\ pc' = "loaded"
    /\ UNCHANGED <<flattenVars, mainVars, caseVars>>
    /\ UNCHANGED <<filters, result>>

ApplyFilters ==
    /\ pc = "loaded"
    /\ \E F \in FilterSpecs :
          /\ filters' = F
          /\ result' = apply_filters(df, F)
    /\ pc' = "done"
    /\ UNCHANGED df
    /\ UNCHANGED <<flattenVars, mainVars, caseVars>>

Next == RecordsToDf \/ ApplyFilters

Spec == Init /\ [][Next]_vars

\* -------------------------------------------------------------- properties
Done == pc = "done"

\* the conditions of a filter specification in evaluation order; a bare
\* value is the condition "=" on its column
ItemEntries(item) ==
    IF item.isdict
    THEN [k \in 1..Len(item.ops) |->
            [column |-> item.column, op |-> item.ops[k].op,
             value |-> item.ops[k].value, list |-> item.ops[k].list]]
    ELSE <<[column |-> item.column, op |-> "=", value |-> item.value, list |-> <<>>]>>

RECURSIVE Flat(_)
Flat(F) == IF F = <<>> THEN <<>> ELSE ItemEntries(Head(F)) \o Flat(Tail(F))

\* whether one condition holds of one cell, row by row
CellHolds(x, c) ==
    CASE c.op = "isna"  -> x = Null
      [] c.op = "notna" -> x # Null
      [] c.op = "="     -> x # Null /\ x = c.value
      [] c.op = "!="    -> x = Null \/ x # c.value
      [] c.op = "in"    -> x \in {c.list[j] : j \in 1..Len(c.list)}
      [] c.op = ">="    -> x # Null /\ c.value # Null /\ x[1] >= c.value[1]
      [] c.op = "<="    -> x # Null /\ c.value # Null /\ x[1] <= c.value[1]
      [] c.op = ">"     -> x # Null /\ c.value # Null /\ x[1] > c.value[1]
      [] c.op = "<"     -> x # Null /\ c.value # Null /\ x[1] < c.value[1]
      [] OTHER          -> FALSE

Satisfies(row, conds) ==
    \A k \in 1..Len(conds) : CellHolds(row[conds[k].column], conds[k])

RowSatisfies(row, F) == Satisfies(row, Flat(F))

OverColumns(t, F) == \A k \in 1..Len(F) : F[k].column \in t.columns

AllRecognized(F) ==
    \A k \in 1..Len(F) :
        F[k].isdict => \A j \in 1..Len(F[k].ops) : F[k].ops[j].op \in RecognizedOps

IndexSet(t) == {t.index[k] : k \in 1..Len(t.index)}

PosOf(t, label) == CHOOSE i \in 1..Len(t.index) : t.index[i] = label

\* two returned segments that split the rows of t between them
Partition(t, r1, r2) ==
    /\ r1.raised = "" /\ r2.raised = ""
    /\ IndexSet(r1) \cap IndexSet(r2) = {}
    /\ IndexSet(r1) \cup IndexSet(r2) = IndexSet(t)
    /\ Len(r1.index) + Len(r2.index) = Len(t.index)

\* C1: for a filter over columns of the table that uses recognized operators,
\* apply_filters returns exactly the rows satisfying every condition: each
\* returned row is a row of the table that satisfies the filter, every
\* satisfying row is returned, none twice, and in the table's order.
C1_ExactlyTheSatisfyingRows ==
    (Done /\ OverColumns(df, filters) /\ AllRecognized(filters)) =>
        /\ result.raised = ""
        /\ result.columns = df.columns
        /\ Len(result.data) = Len(result.index)
        /\ LET conds == Flat(filters)
           IN  /\ \A k \in 1..Len(result.index) :
                     /\ result.index[k] \in IndexSet(df)
                     /\ result.data[k] = df.data[PosOf(df, result.index[k])]
                     /\ Satisfies(result.data[k], conds)
               /\ \A i \in 1..Len(df.index) :
                     Satisfies(df.data[i], conds) => df.index[i] \in IndexSet(result)
        /\ \A k1, k2 \in 1..Len(result.index) :
              k1 < k2 => PosOf(df, result.index[k1]) < PosOf(df, result.index[k2])

\* the spec's scenario in small: {Status: value, Amount: {isna: True}} keeps
\* the second of two rows and drops the first
C1_Witness ==
    /\ Done /\ OverColumns(df, filters) /\ AllRecognized(filters)
    /\ Len(filters) = 2
    /\ ~filters[1].isdict /\ filters[1].column = "Status"
    /\ filters[2].isdict /\ Len(filters[2].ops) = 1 /\ filters[2].ops[1].op = "isna"
    /\ Len(df.index) = 2
    /\ result.raised = "" /\ result.index = <<1>>

\* the positions of Flat(F) that use an operator outside the if/elif chain
UnsupportedAt(F) ==
    LET conds == Flat(F)
    IN  {k \in 1..Len(conds) : conds[k].op \notin RecognizedOps}

\* the positions of Flat(F) whose branch reads a column the table lacks
MissingAt(t, F) ==
    LET conds == Flat(F)
    IN  {k \in 1..Len(conds) :
            conds[k].op \in RecognizedOps /\ conds[k].column \notin t.columns}

Least(S) == CHOOSE k \in S : \A j \in S : k <= j

NoTable(r) == r.raised # "" /\ r.index = <<>> /\ r.data = <<>> /\ r.columns = {}

\* C2 as claimed: a filter with an unsupported operator symbol anywhere fails
\* with the unsupported-operator error naming such a symbol, whatever the
\* table contains.
C2_AlwaysUnsupportedOperatorError ==
    (Done /\ UnsupportedAt(filters) # {}) =>
        /\ NoTable(result)
        /\ result.raised = "ValueError"
        /\ result.message \in {Flat(filters)[k].op : k \in UnsupportedAt(filters)}

\* C2, amended: a filter with an unsupported operator symbol returns no
\* table; the error is the unsupported-operator error naming the first such
\* symbol in evaluation order, unless an earlier condition names a column
\* the table lacks, and then it is the KeyError naming the first such column.
C2_FailsAtFirstFailingCondition ==
    (Done /\ UnsupportedAt(filters) # {}) =>
        LET u == Least(UnsupportedAt(filters))
            earlier == {k \in MissingAt(df, filters) : k < u}
        IN  /\ NoTable(result)
            /\ IF earlier = {}
               THEN result.raised = "ValueError" /\ result.message = Flat(filters)[u].op
               ELSE result.raised = "KeyError"
                    /\ result.message = Flat(filters)[Least(earlier)].column

\* an unsupported symbol met after a valid condition has removed a row
C2_Witness ==
    /\ Done /\ Len(Flat(filters)) = 2
    /\ UnsupportedAt(filters) = {2}
    /\ Flat(filters)[1].column \in df.columns
    /\ \E i \in 1..Len(df.index) : ~CellHolds(df.data[i][Flat(filters)[1].column], Flat(filters)[1])
    /\ result.raised = "ValueError" /\ result.message = "~="

\* C3 as claimed: isna / notna on a column the table lacks treats the column
\* as null in every row (isna keeps every row, notna none) and raises nothing.
C3_MissingColumnIsNull ==
    (/\ Done /\ Len(filters) = 1 /\ filters[1].isdict /\ Len(filters[1].ops) = 1
     /\ filters[1].ops[1].op \in {"isna", "notna"}
     /\ filters[1].column \notin df.columns) =>
        /\ result.raised = ""
        /\ filters[1].ops[1].op = "isna" => result.index = df.index
        /\ filters[1].ops[1].op = "notna" => result.index = <<>>

\* the conditions other than isna / notna that name a column the table lacks
ComparedMissingAt(t, F) ==
    {k \in MissingAt(t, F) : Flat(F)[k].op \notin {"isna", "notna"}}

\* C4 as claimed: a condition other than isna / notna on a column the table
\* lacks always fails with the column-not-found error.
C4_AlwaysColumnNotFound ==
    (Done /\ ComparedMissingAt(df, filters) # {}) =>
        /\ NoTable(result)
        /\ result.raised = "KeyError"
        /\ result.message \notin df.columns

\* C4, amended: such a filter returns no rows and never evaluates the
\* condition as false; it fails with the KeyError naming the first missing
\* column read in evaluation order, unless an unsupported operator symbol
\* comes before that condition, and then with the unsupported-operator error.
C4_ColumnNotFoundUnlessUnsupportedFirst ==
    (Done /\ ComparedMissingAt(df, filters) # {}) =>
        LET m == Least(MissingAt(df, filters))
            earlier == {k \in UnsupportedAt(filters) : k < m}
        IN  /\ NoTable(result)
            /\ IF earlier = {}
               THEN /\ result.raised = "KeyError"
                    /\ result.message = Flat(filters)[m].column
                    /\ result.message \notin df.columns
               ELSE /\ result.raised = "ValueError"
                    /\ result.message = Flat(filters)[Least(earlier)].op

\* a comparison on a missing column of a table that has rows, met after a
\* condition on a present column
C4_Witness ==
    /\ Done /\ Len(Flat(filters)) = 2
    /\ ComparedMissingAt(df, filters) = {2}
    /\ Flat(filters)[1].column \in df.columns
    /\ Flat(filters)[2].op \in {">=", "<=", ">", "<", "in", "!=", "="}
    /\ Len(df.index) > 0
    /\ result.raised = "KeyError"

\* C5: the empty filter specification returns the table's rows, all of them,
\* in the table's order.
C5_EmptyFilterReturnsTable ==
    (Done /\ filters = <<>>) =>
        /\ result.raised = ""
        /\ result.columns = df.columns
        /\ result.index = df.index
        /\ result.data = df.data

C5_Witness ==
    /\ Done /\ filters = <<>> /\ Len(df.index) = MaxRows
    /\ result.index = df.index /\ df.columns = Cols

OneOp(F, ops) ==
    /\ Len(F) = 1 /\ F[1].isdict /\ Len(F[1].ops) = 1 /\ F[1].ops[1].op \in ops

\* C6: {c: {isna: True}} and {c: {notna: True}} on a column c of the table
\* select disjoint segments that together hold every row; their sizes sum
\* to the table's length.
C6_IsnaNotnaPartition ==
    (/\ Done /\ OneOp(filters, {"isna"}) /\ filters[1].ops[1].value = Val(1)
     /\ filters[1].column \in df.columns) =>
        Partition(df, result,
                  apply_filters(df, <<Dict(filters[1].column,
                                           <<Entry("notna", Val(1), <<>>)>>)>>))

\* a table with a null and a non-null cell in the column: both parts non-empty
C6_Witness ==
    /\ Done /\ OneOp(filters, {"isna"}) /\ filters[1].ops[1].value = Val(1)
    /\ filters[1].column \in df.columns
    /\ Len(df.index) = 2 /\ Len(result.index) = 1

NoNulls(t, column) == \A i \in 1..Len(t.data) : t.data[i][column] # Null

OneEquality(F) == Len(F) = 1 /\ (F[1].isdict => OneOp(F, {"="}))

\* C8: for a non-null operand v, equality (bare or "=") selects no row whose
\* cell is null, and "=" v and "!=" v select complementary sets: every row,
\* null or not, is in exactly one of the two.
C8_EqNeComplementary ==
    (/\ Done /\ OneEquality(filters) /\ Flat(filters)[1].value # Null
     /\ filters[1].column \in df.columns) =>
        LET c  == filters[1].column
            ne == apply_filters(df, <<Dict(c, <<Entry("!=", Flat(filters)[1].value, <<>>)>>)>>)
        IN  /\ result.raised = "" /\ ne.raised = ""
            /\ \A k \in 1..Len(result.data) : result.data[k][c] # Null
            /\ \A i \in 1..Len(df.index) :
                  (df.index[i] \in IndexSet(result)) # (df.index[i] \in IndexSet(ne))
            /\ Len(result.index) + Len(ne.index) = Len(df.index)

\* a null cell and an equal cell in the same column
C8_Witness ==
    /\ Done /\ OneEquality(filters) /\ Flat(filters)[1].value # Null
    /\ filters[1].column \in df.columns
    /\ \E i \in 1..Len(df.data) : df.data[i][filters[1].column] = Null
    /\ Len(result.index) = 1 /\ Len(df.index) = 2

Negated(b) == IF b = Val(1) THEN Val(0) ELSE Val(1)

NullLabels(t, column, isnull) ==
    {t.index[i] : i \in {j \in 1..Len(t.index) : (t.data[j][column] = Null) = isnull}}

\* C9: isna and notna do not read their operand: the result is the same for
\* the operand True and the operand False, namely the rows whose cell is
\* null (isna), or is not null (notna).
C9_NullTestsIgnoreOperand ==
    (Done /\ OneOp(filters, {"isna", "notna"}) /\ filters[1].column \in df.columns) =>
        LET c == filters[1].column
            e == filters[1].ops[1]
        IN  /\ result.raised = ""
            /\ result = apply_filters(df, <<Dict(c, <<Entry(e.op, Negated(e.value), <<>>)>>)>>)
            /\ IndexSet(result) = NullLabels(df, c, e.op = "isna")

\* {isna: False} on a column with a null and a non-null cell
C9_Witness ==
    /\ Done /\ OneOp(filters, {"isna"}) /\ filters[1].ops[1].value = Val(0)
    /\ filters[1].column \in df.columns
    /\ Len(df.index) = 2 /\ Len(result.index) = 1

\* C10 as claimed: the table records_to_df builds from no records, filtered
\* by any specification with only recognized operators, gives an empty table
\* and no error.
C10_EmptyTableNeverFails ==
    (Done /\ df = records_to_df(<<>>) /\ AllRecognized(filters)) =>
        result.raised = "" /\ result.index = <<>>

(***************************************************************************)
(* The flatteners (src/data_extraction/loaders.py).                        *)
(*                                                                         *)
(* A cell of a nested column may also hold an object: <<"dict", f>> with   *)
(* f the function from its keys to their values.  A Field Path Mapping is  *)
(* the dict in insertion order: a sequence of                              *)
(*   [column, fields]                                                      *)
(* whose `fields` are entries [key, isstr, dest, sub]: a leaf has          *)
(* isstr = TRUE and its destination column in `dest`, an inner mapping     *)
(* has isstr = FALSE and its own entries in `sub`.  What a flattener       *)
(* returns is a frame [index, parts]: the column blocks [columns, data]    *)
(* laid side by side over one index, so that two columns of one name can   *)
(* stand next to each other as they do after pd.concat(axis=1).            *)
(* The caller's objects live in `heap`: "T" the loaded table, "S" the      *)
(* segment a filter returned, "out" the copy a flattener works on.         *)
(***************************************************************************)
Object(f) == <<"dict", f>>

\* isinstance(x, dict)
IsDict(x) == Len(x) = 2

\* x.get(key) on an object
Get(x, key) == IF key \in DOMAIN x[2] THEN x[2][key] ELSE Null

Leaf(key, dest) == [key |-> key, isstr |-> TRUE, dest |-> dest, sub |-> <<>>]

Node(key, sub) == [key |-> key, isstr |-> FALSE, dest |-> "", sub |-> sub]

Top(column, fields) == [column |-> column, fields |-> fields]

\* a table seen as a frame of one block
AsFrame(t) == [index |-> t.index, parts |-> <<[columns |-> t.columns, data |-> t.data]>>]

FrameColumns(f) == UNION {f.parts[p].columns : p \in 1..Len(f.parts)}

\* ------------------------------------------------- extract_nested_fields
\* faulty variant: no copy is taken, the flattener works on its argument
DfCopy_Alias(h, src) == [heap |-> h, ref |-> src]

\* df = df.copy(): a new object with the argument's value
DfCopy(h, src) == [heap |-> [h EXCEPT !["out"] = h[src]], ref |-> "out"]

\* lambda x: x.get(field_name) if isinstance(x, dict) else None
FieldOf(x, field_name) == IF IsDict(x) THEN Get(x, field_name) ELSE Null

\* df[new_col_name] = series: the column is replaced when it exists already
SetColumn(t, new_col_name, s) ==
    [columns |-> t.columns \cup {new_col_name},
     index   |-> t.index,
     data    |-> [i \in 1..Len(t.data) |->
                    [c \in t.columns \cup {new_col_name} |->
                        IF c = new_col_name THEN s[i] ELSE t.data[i][c]]]]

\* the inner loop over field_mapping.items()
RECURSIVE ExtractFields(_, _, _, _)
ExtractFields(t, nested_col, field_mapping, k) ==
    IF k > Len(field_mapping)
    THEN t
    ELSE ExtractFields(
            SetColumn(t, field_mapping[k].dest,
                      [i \in 1..Len(t.data) |->
                          FieldOf(t.data[i][nested_col], field_mapping[k].key)]),
            nested_col, field_mapping, k + 1)

\* the outer loop over nested_mapping.items()
RECURSIVE ExtractColumns(_, _, _)
ExtractColumns(t, nested_mapping, k) ==
    IF k > Len(nested_mapping)
    THEN t
    ELSE ExtractColumns(
            IF nested_mapping[k].column \in t.columns
            THEN ExtractFields(t, nested_mapping[k].column, nested_mapping[k].fields, 1)
            ELSE t,
            nested_mapping, k + 1)

\* the heap after the call and the frame returned
extract_nested_fields(h, src, nested_mapping) ==
    LET c  == DfCopy(h, src)
        h2 == [c.heap EXCEPT ![c.ref] = ExtractColumns(c.heap[c.ref], nested_mapping, 1)]
    IN  [heap |-> h2, frame |-> AsFrame(h2[c.ref])]

\* ----------------------------------------------------- extract_from_dict
\* result.update(other) / result[key] = value
Update(r, other) ==
    [d \in DOMAIN r \cup DOMAIN other |-> IF d \in DOMAIN other THEN other[d] ELSE r[d]]

RECURSIVE extract_from_dict(_, _)
RECURSIVE ExtractEntries(_, _, _, _)
ExtractEntries(data, mapping, k, res) ==
    IF k > Len(mapping)
    THEN res
    ELSE ExtractEntries(data, mapping, k + 1,
            IF mapping[k].isstr
            THEN Update(res, mapping[k].dest :> Get(data, mapping[k].key))
            ELSE IF IsDict(Get(data, mapping[k].key))
                 THEN Update(res, extract_from_dict(Get(data, mapping[k].key),
                                                    mapping[k].sub))
                 ELSE res)

extract_from_dict(data, mapping) ==
    IF ~IsDict(data) THEN <<>> ELSE ExtractEntries(data, mapping, 1, <<>>)

\* ------------------------------------------ extract_nested_fields_n_level
\* pd.json_normalize(list of flat dicts): one row per dict under the labels
\* 0..n-1, one column per key that occurs in some dict
json_normalize(dicts) == DataFrame(dicts)

Labels(index) == {index[i] : i \in 1..Len(index)}

\* the labels of the side-by-side frame: one index when both agree, else
\* the left labels followed by the right labels the left one lacks
UnionIndex(left, right) ==
    IF left = right
    THEN left
    ELSE left \o SelectSeq(right, LAMBDA l : l \notin Labels(left))

\* a block's rows laid out under the labels `index`: a label the block
\* lacks gives a row of nulls
Reindex(block, old, index) ==
    [columns |-> block.columns,
     data    |-> [k \in 1..Len(index) |->
                    IF index[k] \in Labels(old)
                    THEN block.data[CHOOSE j \in 1..Len(old) : old[j] = index[k]]
                    ELSE [c \in block.columns |-> Null]]]

\* pd.concat([df, extracted_df], axis=1): rows are matched by label
Concat(f, t) ==
    LET index == UnionIndex(f.index, t.index)
    IN  [index |-> index,
         parts |-> [p \in 1..Len(f.parts) |-> Reindex(f.parts[p], f.index, index)]
                   \o <<Reindex([columns |-> t.columns, data |-> t.data], t.index, index)>>]

\* df[top_column] of a frame whose blocks hold top_column once
FrameColumn(f, top_column) ==
    LET p == CHOOSE q \in 1..Len(f.parts) : top_column \in f.parts[q].columns
    IN  [i \in 1..Len(f.index) |-> f.parts[p].data[i][top_column]]

RECURSIVE ExtractLevels(_, _, _)
ExtractLevels(f, nested_mapping, k) ==
    IF k > Len(nested_mapping)
    THEN f
    ELSE ExtractLevels(
            IF nested_mapping[k].column \notin FrameColumns(f)
            THEN f
            ELSE Concat(f, json_normalize(
                     [i \in 1..Len(f.index) |->
                         extract_from_dict(FrameColumn(f, nested_mapping[k].column)[i],
                                           nested_mapping[k].fields)])),
            nested_mapping, k + 1)

\* the heap after the call and the frame returned
extract_nested_fields_n_level(h, src, nested_mapping) ==
    LET c == DfCopy(h, src)
    IN  [heap |-> c.heap, frame |-> ExtractLevels(AsFrame(c.heap[c.ref]), nested_mapping, 1)]

\* ------------------------------------------- apply_filters on the heap
\* faulty variant: the rows are selected in the argument itself
LocCopy_InPlace(h, src, mask) ==
    [heap |-> [h EXCEPT ![src] = Loc(h[src], mask)], ref |-> src]

\* return df.loc[mask].copy(): a new object with the selected rows
LocCopy(h, src, mask) ==
    [heap |-> [h EXCEPT !["S"] = Loc(h[src], mask)], ref |-> "S"]

\* the heap after apply_filters(h[src], F) and the object returned
ApplyFiltersOn(h, src, F) ==
    LET st == ApplyItems(h[src], F, 1, Running(InitMask(h[src])))
    IN  IF st.raised # ""
        THEN [heap |-> h, ref |-> "", raised |-> st.raised]
        ELSE [heap   |-> LocCopy(h, src, st.mask).heap,
              ref    |-> LocCopy(h, src, st.mask).ref,
              raised |-> ""]

\* ----------------------------------------------------- flattener inputs
\* Records of a parent "Account" with a child "Owner", as a relationship
\* query returns them: each level is null, a scalar or an object.
OwnerObjects == {Object([Name |-> v]) : v \in {Null, Val(2)}}

AccountObjects ==
    {Object([Name |-> n, Owner |-> o]) :
        n \in {Null, Val(1), Val(2)}, o \in {Null, Val(1)} \cup OwnerObjects}
    \cup {Object([Name |-> Val(2)])}

AccountCells == {Null, Val(1)} \cup AccountObjects

FlatRecords ==
    {[Id |-> Val(1), Account |-> a] : a \in AccountCells} \cup {[Id |-> Val(1)]}

FlatRecordLists == SeqsUpTo(FlatRecords, MaxRows)

\* filters that keep some rows and drop others
FlatFilters ==
    {<<>>,
     <<Bare("Id", Val(1))>>,
     <<Dict("Account", <<Entry("notna", Val(1), <<>>)>>)>>,
     <<Dict("Account", <<Entry("isna", Val(1), <<>>)>>)>>}

\* destination names: new ones, and "Id", which the table holds already
ShallowFields ==
    {<<Leaf("Name", d)>> : d \in {"Account Name", "Id"}}
    \cup {<<Leaf("Name", "Account Name"), Leaf("Phone", "Account Phone")>>}

DeepFields ==
    {<<Node("Owner", <<Leaf("Name", "Owner Name")>>)>>}
    \cup {<<Leaf("Name", d), Node("Owner", <<Leaf("Name", "Owner Name")>>)>> :
             d \in {"Account Name", "Id"}}

\* mappings over "Account", alone or after a source column the table lacks
\* ("Opportunity") or one that holds no objects ("Id")
MappingsOver(fieldsets) ==
    {<<Top("Account", f)>> : f \in fieldsets}
    \cup {<<Top(c, <<Leaf("Name", "Other Name")>>), Top("Account", f)>> :
             c \in {"Opportunity", "Id"}, f \in fieldsets}

ShallowMappings == MappingsOver(ShallowFields)

DeepMappings == MappingsOver(ShallowFields \cup DeepFields)

\* ---------------------------------------------------- flattener actions
Load ==
    /\ fpc = "start"
    /\ \E records \in FlatRecordLists :
          heap' = [heap EXCEPT !["T"] = records_to_df(records)]
    /\ cur' = "T"
    /\ fpc' = "loaded"
    /\ UNCHANGED <<seg, fkind, fmap, farg, fout>>
    /\ UNCHANGED <<filterVars, mainVars, caseVars>>

\* segment = apply_filters(df, F)
Select ==
    /\ fpc = "loaded"
    /\ \E F \in FlatFilters :
          LET r == ApplyFiltersOn(heap, "T", F)
          IN  /\ heap' = r.heap
              /\ seg' = r.ref
              /\ cur' = IF r.raised = "" THEN r.ref ELSE cur
              /\ fpc' = IF r.raised = "" THEN "filtered" ELSE "failed"
    /\ UNCHANGED <<fkind, fmap, farg, fout>>
    /\ UNCHANGED <<filterVars, mainVars, caseVars>>

\* segment.drop(columns=[c], inplace=True), as the use cases do before
\* they print a segment
DropInPlace ==
    /\ fpc = "filtered"
    /\ \E c \in heap[seg].columns :
          heap' = [heap EXCEPT ![seg] = DropColumns(heap[seg], {c})]
    /\ fpc' = "changed"
    /\ UNCHANGED <<cur, seg, fkind, fmap, farg, fout>>
    /\ UNCHANGED <<filterVars, mainVars, caseVars>>

ExtractNestedFields ==
    /\ fpc \in {"loaded", "filtered"}
    /\ \E m \in ShallowMappings :
          /\ fmap' = m
          /\ heap' = extract_nested_fields(heap, cur, m).heap
          /\ fout' = extract_nested_fields(heap, cur, m).frame
    /\ fkind' = "extract_nested_fields"
    /\ farg' = heap[cur]
    /\ fpc' = "flat"
    /\ UNCHANGED <<cur, seg>>
    /\ UNCHANGED <<filterVars, mainVars, caseVars>>

ExtractNestedFieldsNLevel ==
    /\ fpc \in {"loaded", "filtered"}
    /\ \E m \in DeepMappings :
          /\ fmap' = m
          /\ heap' = extract_nested_fields_n_level(heap, cur, m).heap
          /\ fout' = extract_nested_fields_n_level(heap, cur, m).frame
    /\ fkind' = "extract_nested_fields_n_level"
    /\ farg' = heap[cur]
    /\ fpc' = "flat"
    /\ UNCHANGED <<cur, seg>>
    /\ UNCHANGED <<filterVars, mainVars, caseVars>>

FlattenNext ==
    \/ Load
    \/ Select
    \/ DropInPlace
    \/ ExtractNestedFields
    \/ ExtractNestedFieldsNLevel

SpecFlatten == Init /\ [][FlattenNext]_vars

Flattened == fpc = "flat"

\* ------------------------------------------------- flattener properties
\* the leaves of a mapping: source column, path of keys below it, destination
RECURSIVE LeavesOf(_, _, _)
LeavesOf(column, fields, prefix) ==
    UNION {IF fields[k].isstr
           THEN {[column |-> column,
                  path   |-> Append(prefix, fields[k].key),
                  dest   |-> fields[k].dest]}
           ELSE LeavesOf(column, fields[k].sub, Append(prefix, fields[k].key)) :
              k \in 1..Len(fields)}

Leaves(m) == UNION {LeavesOf(m[k].column, m[k].fields, <<>>) : k \in 1..Len(m)}

\* the cell of a row at the source column; a table without the column has
\* no nested object there
SourceCell(t, i, column) == IF column \in t.columns THEN t.data[i][column] ELSE Null

\* the nested object, or a segment of the path before its end, is not an object
RECURSIVE Broken(_, _)
Broken(x, path) ==
    IF ~IsDict(x) THEN TRUE
    ELSE IF Len(path) = 1 THEN FALSE ELSE Broken(Get(x, path[1]), Tail(path))

\* the value at the end of a path every segment of which is an object
RECURSIVE Resolve(_, _)
Resolve(x, path) == IF path = <<>> THEN x ELSE Resolve(Get(x, path[1]), Tail(path))

\* the rows of a frame that carry the label of row i of table t
RowsOf(f, t, i) == {k \in 1..Len(f.index) : f.index[k] = t.index[i]}

\* a column of a frame by name: the leftmost one is the table's own, the
\* rightmost one the one a flattener added last
Leftmost(f, c) ==
    f.parts[CHOOSE p \in 1..Len(f.parts) :
               /\ c \in f.parts[p].columns
               /\ \A q \in 1..(p - 1) : c \notin f.parts[q].columns]

Rightmost(f, c) ==
    f.parts[CHOOSE p \in 1..Len(f.parts) :
               /\ c \in f.parts[p].columns
               /\ \A q \in (p + 1)..Len(f.parts) : c \notin f.parts[q].columns]

\* C11: a flattener returns exactly as many rows as the table it was given
\* has, whatever the row labels of that table are.
C11_RowCountPreserved == Flattened => Len(fout.index) = Len(farg.index)

\* C12: for every leaf of the mapping and every row whose nested object, or
\* a segment of the path before its end, is null, absent or not an object,
\* the flattened table has the leaf's destination column and that row holds
\* null in it.
C12_BrokenPathGivesNullColumn ==
    Flattened =>
        \A leaf \in Leaves(fmap) : \A i \in 1..Len(farg.index) :
            Broken(SourceCell(farg, i, leaf.column), leaf.path) =>
                /\ leaf.dest \in FrameColumns(fout)
                /\ RowsOf(fout, farg, i) # {}
                /\ \A k \in RowsOf(fout, farg, i) :
                      Rightmost(fout, leaf.dest).data[k][leaf.dest] = Null

\* C13: every column of the table given is a column of the flattened table
\* and holds the same value in every row, whatever destination names the
\* mapping uses.
C13_OriginalColumnsKept ==
    Flattened =>
        \A c \in farg.columns :
            /\ c \in FrameColumns(fout)
            /\ \A i \in 1..Len(farg.index) :
                  /\ RowsOf(fout, farg, i) # {}
                  /\ \A k \in RowsOf(fout, farg, i) :
                        Leftmost(fout, c).data[k][c] = farg.data[i][c]

\* C14: for every leaf and every row in which each segment of the leaf's
\* path is an object, the row's destination column holds the value at the
\* end of the path.
C14_ResolvedPathGivesValue ==
    Flattened =>
        \A leaf \in Leaves(fmap) : \A i \in 1..Len(farg.index) :
            (leaf.column \in farg.columns /\ ~Broken(farg.data[i][leaf.column], leaf.path)) =>
                /\ leaf.dest \in FrameColumns(fout)
                /\ RowsOf(fout, farg, i) # {}
                /\ \A k \in RowsOf(fout, farg, i) :
                      Rightmost(fout, leaf.dest).data[k][leaf.dest]
                          = Resolve(farg.data[i][leaf.column], leaf.path)

\* C15: after a flattener has returned, the table it was given is what it
\* was at the call.
C15_InputUnchanged == Flattened => heap[cur] = farg

\* a flattener that added a column to a table with rows
C15_Witness ==
    /\ Flattened
    /\ fkind = "extract_nested_fields"
    /\ Len(farg.index) > 0
    /\ FrameColumns(fout) # farg.columns
    /\ heap[cur] = farg

JNull == [isstr |-> FALSE, text |-> <<>>]

JStr(text) == [isstr |-> TRUE, text |-> text]

JObject(fields) == [isdict |-> TRUE, fields |-> fields]

\* an item that is no object: a string, a number
JOther == [isdict |-> FALSE, fields |-> <<>>]

\* item.get(key, default)
ItemGet(item, key, default) ==
    IF key \in DOMAIN item.fields THEN item.fields[key] ELSE default

\* ---------------------------------------------------- build_pie_segments
RECURSIVE RStrip(_)
RStrip(text) ==
    IF text # <<>> /\ text[Len(text)] = " "
    THEN RStrip(SubSeq(text, 1, Len(text) - 1))
    ELSE text

RECURSIVE LStrip(_)
LStrip(text) == IF text # <<>> /\ Head(text) = " " THEN LStrip(Tail(text)) ELSE text

\* str.strip()
Strip(text) == LStrip(RStrip(text))

\* re.sub(r"\s*\(\d+\)$", "", raw_title): a parenthesised number at the very
\* end goes, with the white space before it
StripCount(raw_title) ==
    IF raw_title # <<>> /\ raw_title[Len(raw_title)] = "(n)"
    THEN RStrip(SubSeq(raw_title, 1, Len(raw_title) - 1))
    ELSE raw_title

NoDescriptions == [raised |-> "", map |-> <<>>]

\* one pass of the loop that builds description_map
MapItem(item, st) ==
    IF ~item.isdict
    THEN [raised |-> "AttributeError", map |-> st.map]
    ELSE IF ~ItemGet(item, "title", JStr(<<>>)).isstr
         THEN [raised |-> "TypeError", map |-> st.map]
         ELSE [raised |-> "",
               map    |-> Update(st.map,
                                 Strip(StripCount(ItemGet(item, "title", JStr(<<>>)).text))
                                    :> ItemGet(item, "description", JStr(<<>>)))]

RECURSIVE MapItems(_, _, _)
MapItems(items, k, st) ==
    IF st.raised # "" \/ k > Len(items)
    THEN st
    ELSE MapItems(items, k + 1, MapItem(items[k], st))

\* for item in llm_output: a list gives its items, an object its keys
\* (strings), anything else cannot be iterated
DescriptionMap(llm_output) ==
    IF llm_output.kind = "scalar"
    THEN [raised |-> "TypeError", map |-> <<>>]
    ELSE MapItems(llm_output.items, 1, NoDescriptions)

\* the labels that have a table, in the order of pie_labels
KnownAt(map, pie_labels) ==
    SelectSeq([i \in 1..Len(pie_labels) |-> i], LAMBDA i : pie_labels[i] \in DOMAIN map)

Segment(description_map, map, pie_labels, pie_colors, idx) ==
    [title       |-> pie_labels[idx],
     count       |-> map[pie_labels[idx]],
     description |-> IF pie_labels[idx] \in DOMAIN description_map
                     THEN description_map[pie_labels[idx]]
                     ELSE JStr(<<>>),
     color       |-> IF idx <= Len(pie_colors) THEN pie_colors[idx] ELSE "#CCCCCC"]

\* `map` gives len(df) for every label of label_to_df_map
build_pie_segments(llm_output, map, pie_labels, pie_colors) ==
    LET d == DescriptionMap(llm_output)
    IN  IF d.raised # ""
        THEN [raised |-> d.raised, segments |-> <<>>]
        ELSE [raised   |-> "",
              segments |-> [k \in 1..Len(KnownAt(map, pie_labels)) |->
                              Segment(d.map, map, pie_labels, pie_colors,
                                      KnownAt(map, pie_labels)[k])]]

\* ------------------------------------------------------- report builders
\* add_chart_section / build_leakage_report: the files afterwards, or the
\* error raised when the chart image is not there
build_leakage_report(fs, output_pdf, image_exists) ==
    IF ~image_exists
    THEN [raised |-> "FileNotFoundError", files |-> fs]
    ELSE [raised |-> "", files |-> fs \cup {output_pdf}]

Chart(usecase) == <<"Data_Chart", usecase>>

Summary(usecase) == <<"Data_Summary", usecase>>

Pdf(usecase) == <<"pdf", usecase>>

\* the loop of build_category_from_central_assets: a use case whose chart
\* or summary is missing is skipped with a warning
Sections(fs, usecase_list) ==
    SelectSeq(usecase_list, LAMBDA u : Chart(u) \in fs /\ Summary(u) \in fs)

Warnings(fs, usecase_list) ==
    {<<"Chart missing", usecase_list[k]>> :
        k \in {j \in 1..Len(usecase_list) : Chart(usecase_list[j]) \notin fs}}
    \cup {<<"Summary missing", usecase_list[k]>> :
        k \in {j \in 1..Len(usecase_list) :
                  Chart(usecase_list[j]) \in fs /\ Summary(usecase_list[j]) \notin fs}}

build_category_from_central_assets(fs, category_name, usecase_list) ==
    [category |-> category_name,
     built    |-> TRUE,
     sections |-> Sections(fs, usecase_list),
     warnings |-> Warnings(fs, usecase_list)]

\* ------------------------------------------------------------ main()
NumModules == 3

\* the numbers of the use-case modules in the directory
Numbers == <<2, 10, 1, 3, 11>>

Digits(n) == IF n < 10 THEN <<n>> ELSE <<n \div 10, n % 10>>

Names == {Digits(Numbers[i]) : i \in 1..NumModules}

\* os.listdir(usecase_dir): the modules, the package file, the cache
DirEntries ==
    {[prefix |-> "usecase", digits |-> d, ext |-> ".py"] : d \in Names}
    \cup {[prefix |-> "__init__", digits |-> <<>>, ext |-> ".py"],
          [prefix |-> "__pycache__", digits |-> <<>>, ext |-> ""]}

Listings ==
    {l \in [1..Cardinality(DirEntries) -> DirEntries] :
        \A i, j \in 1..Cardinality(DirEntries) : l[i] = l[j] => i = j}

\* string order on names that differ after "usecase" only
LexLess(a, b) ==
    \E k \in 1..(Len(a) + 1) :
        /\ \A j \in 1..(k - 1) : j <= Len(b) /\ a[j] = b[j]
        /\ \/ k > Len(a) /\ k <= Len(b)
           \/ k <= Len(a) /\ k <= Len(b) /\ a[k] < b[k]

RECURSIVE Insert(_, _)
Insert(sorted_names, x) ==
    IF sorted_names = <<>> THEN <<x>>
    ELSE IF LexLess(x, Head(sorted_names))
         THEN <<x>> \o sorted_names
         ELSE <<Head(sorted_names)>> \o Insert(Tail(sorted_names), x)

RECURSIVE sorted(_)
sorted(names) ==
    IF names = <<>> THEN <<>> ELSE Insert(sorted(Tail(names)), Head(names))

\* sorted([f[:-3] for f in os.listdir(...) if f.startswith("usecase") and
\* f.endswith(".py") and f != "__init__.py"])
Discovered(listing) ==
    LET kept == SelectSeq(listing, LAMBDA f : f.prefix = "usecase" /\ f.ext = ".py")
    IN  sorted([k \in 1..Len(kept) |-> kept[k].digits])

SuccessRecord(module_name, loss) ==
    [module |-> module_name, name |-> module_name, loss |-> loss, status |-> "success"]

FailedRecord(module_name, e) ==
    [module |-> module_name, name |-> module_name, loss |-> 0,
     status |-> "failed", error |-> e]

\* faulty variant: the exception leaves the loop
OnException_Propagates(res, i, module_name, e) ==
    [results |-> res, mi |-> i, mpc |-> "crashed"]

\* except Exception as e: one failed record, and on to the next module
OnException(res, i, module_name, e) ==
    [results |-> Append(res, FailedRecord(module_name, e)), mi |-> i + 1, mpc |-> "loop"]

\* successful = [r for r in results if r["status"] == "success"]
Successful(res) == SelectSeq(res, LAMBDA r : r.status = "success")

\* summary_df.sort_values(by="loss", ascending=False): the orders of the
\* rows that are descending by loss (rows of equal loss in any order)
SortedByLoss(rows) ==
    {[k \in 1..Len(rows) |-> rows[p[k]]] :
        p \in {q \in [1..Len(rows) -> 1..Len(rows)] :
                  /\ \A i, j \in 1..Len(rows) : q[i] = q[j] => i = j
                  /\ \A i \in 1..(Len(rows) - 1) : rows[q[i]].loss >= rows[q[i + 1]].loss}}

\* categories over the use cases; each also lists one that is no module
CATEGORY_MAPPING ==
    <<[category |-> "Pricing", usecases |-> <<Digits(1), Digits(7), Digits(10)>>],
      [category |-> "Renewal", usecases |-> <<Digits(2), Digits(3), Digits(8), Digits(11)>>]>>

\* ------------------------------------------------------- use-case inputs
PIE_LABELS == <<<<"L1">>, <<"L2">>>>

PIE_COLORS == <<"#FF7782", "#88E788">>

\* len(df) of each segment; a label may have no table
LabelMaps == {(<<"L1">> :> 1) @@ (<<"L2">> :> 0), (<<"L1">> :> 2)}

Titles ==
    {<<"L1">>, <<"L1", " ", "(n)">>, <<" ", "L2", "(n)">>, <<"L2", "(n)", " ">>, <<"X">>}

\* objects with or without "title" and "description"; a title may be null
Items ==
    {JObject(f) : f \in
        {<<>>, "description" :> JStr(<<"A">>), "title" :> JNull}
        \cup {"title" :> JStr(t) : t \in Titles}
        \cup {("title" :> JStr(t)) @@ ("description" :> JStr(<<"A">>)) : t \in Titles}}
    \cup {JOther}

SecondItems ==
    {JObject(("title" :> JStr(t)) @@ ("description" :> JStr(<<"B">>))) :
        t \in {<<"L1">>, <<"L2", " ", "(n)">>}}
    \cup {JObject("description" :> JStr(<<"B">>)), JOther}

\* what json.loads gives: a list of items, an object (iterated by its
\* keys), or a number or null
LlmOutputs ==
    {[kind |-> "list", items |-> l] :
        l \in {<<>>} \cup {<<x>> : x \in Items}
              \cup {<<x, y>> : x \in Items, y \in SecondItems}}
    \cup {[kind |-> "dict", items |-> l] : l \in {<<>>, <<JOther>>}}
    \cup {[kind |-> "scalar", items |-> <<>>]}

\* result.get("total_loss", 0): None, or a number at or beside the bounds of
\* the risk classes
LossValues == {Null, Val(50000), Val(100000), Val(150000)}

\* ------------------------------------------------------ actions of main()
Discover ==
    /\ mpc = "start"
    /\ \E listing \in Listings : usecase_modules' = Discovered(listing)
    /\ mpc' = "loop"
    /\ UNCHANGED <<mi, results, files, ai_response, label_to_df_map, pie_segments,
                   executive_report, category_reports, warnings>>
    /\ UNCHANGED <<filterVars, flattenVars, caseVars>>

\* the except clause of the loop; the locals of run() are gone
Fails(e) ==
    /\ results' = OnException(results, mi, usecase_modules[mi], e).results
    /\ mi' = OnException(results, mi, usecase_modules[mi], e).mi
    /\ mpc' = OnException(results, mi, usecase_modules[mi], e).mpc
    /\ ai_response' = Null
    /\ label_to_df_map' = <<>>
    /\ pie_segments' = <<>>

\* importlib.import_module and the hasattr(module, "run") check
ImportModule ==
    /\ mpc = "loop"
    /\ mi <= Len(usecase_modules)
    /\ \E outcome \in {"ok", "ImportError", "AttributeError: no run() function"} :
          IF outcome = "ok"
          THEN /\ mpc' = "run"
               /\ UNCHANGED <<mi, results, ai_response, label_to_df_map, pie_segments>>
          ELSE Fails(outcome)
    /\ UNCHANGED <<usecase_modules, files, executive_report, category_reports, warnings>>
    /\ UNCHANGED <<filterVars, flattenVars, caseVars>>

\* run(): queries, filters and chart, the narrative call, then the chart
\* and the summary stored for the category reports
RunAnalysis ==
    /\ mpc = "run"
    /\ \/ /\ Fails("JSONDecodeError")
          /\ UNCHANGED files
       \/ /\ Fails("OSError")
          /\ files' = files \cup {Chart(usecase_modules[mi])}
       \/ /\ \E out \in LlmOutputs, map \in LabelMaps :
                /\ ai_response' = out
                /\ label_to_df_map' = map
          /\ files' = files \cup {Chart(usecase_modules[mi]), Summary(usecase_modules[mi])}
          /\ mpc' = "segments"
          /\ UNCHANGED <<mi, results, pie_segments>>
    /\ UNCHANGED <<usecase_modules, executive_report, category_reports, warnings>>
    /\ UNCHANGED <<filterVars, flattenVars, caseVars>>

BuildPieSegments ==
    /\ mpc = "segments"
    /\ LET r == build_pie_segments(ai_response, label_to_df_map, PIE_LABELS, PIE_COLORS)
       IN  IF r.raised # ""
           THEN Fails(r.raised)
           ELSE /\ pie_segments' = r.segments
                /\ mpc' = "report"
                /\ UNCHANGED <<mi, results, ai_response, label_to_df_map>>
    /\ UNCHANGED <<usecase_modules, files, executive_report, category_reports, warnings>>
    /\ UNCHANGED <<filterVars, flattenVars, caseVars>>

\* build_leakage_report, then run() returns and main() appends the record
BuildLeakageReport ==
    /\ mpc = "report"
    /\ \E image_exists \in BOOLEAN, mapping \in BOOLEAN, loss \in LossValues :
          LET r == build_leakage_report(files, Pdf(usecase_modules[mi]), image_exists)
          IN  /\ files' = r.files
              /\ IF r.raised # ""
                 THEN Fails(r.raised)
                 ELSE IF ~mapping
                      THEN Fails("AttributeError: no attribute 'get'")
                      ELSE /\ results' = Append(results,
                                                SuccessRecord(usecase_modules[mi], loss))
                           /\ mi' = mi + 1
                           /\ mpc' = "loop"
                           /\ ai_response' = Null
                           /\ label_to_df_map' = <<>>
                           /\ pie_segments' = <<>>
    /\ UNCHANGED <<usecase_modules, executive_report, category_reports, warnings>>
    /\ UNCHANGED <<filterVars, flattenVars, caseVars>>

LoopEnds ==
    /\ mpc = "loop"
    /\ mi > Len(usecase_modules)
    /\ mpc' = "summary"
    /\ UNCHANGED <<usecase_modules, mi, results, files, ai_response, label_to_df_map,
                   pie_segments, executive_report, category_reports, warnings>>
    /\ UNCHANGED <<filterVars, flattenVars, caseVars>>

\* pd.to_numeric(summary_df["loss"], errors="coerce").fillna(0)
ToNumeric(rows) ==
    [k \in 1..Len(rows) |->
        [rows[k] EXCEPT !.loss = IF rows[k].loss = Null THEN 0 ELSE rows[k].loss[1]]]

\* faulty variant: a loss of exactly 100000 counts as High
classify_loss_risk_Inclusive(loss) ==
    IF loss >= 100000 THEN "High"
    ELSE IF loss > 50000 THEN "Medium"
    ELSE "Low"

classify_loss_risk(loss) ==
    IF loss > 100000 THEN "High"
    ELSE IF loss > 50000 THEN "Medium"
    ELSE "Low"

\* str.lower() of a risk category
Lower(risk) ==
    CASE risk = "High" -> "high"
      [] risk = "Medium" -> "medium"
      [] risk = "Low" -> "low"

\* a row of table_data as build_executive_report formats it: the serial
\* number, the name, the loss, and the ticks under R, A and G
TableRow(sno, row) ==
    [sno  |-> sno,
     name |-> row.name,
     loss |-> row.loss,
     risk |-> classify_loss_risk(row.loss),
     R    |-> Lower(classify_loss_risk(row.loss)) = "high",
     A    |-> Lower(classify_loss_risk(row.loss)) = "medium",
     G    |-> Lower(classify_loss_risk(row.loss)) = "low"]

\* step 7: the executive report, if any use case succeeded
ExecutiveReport ==
    /\ mpc = "summary"
    /\ IF Successful(results) # <<>>
       THEN \E rows \in SortedByLoss(ToNumeric(Successful(results))) :
               executive_report' = [built |-> TRUE,
                                    rows  |-> [k \in 1..Len(rows) |-> rows[k].name],
                                    table |-> [k \in 1..Len(rows) |-> TableRow(k, rows[k])]]
       ELSE UNCHANGED executive_report
    /\ mpc' = "categories"
    /\ UNCHANGED <<usecase_modules, mi, results, files, ai_response, label_to_df_map,
                   pie_segments, category_reports, warnings>>
    /\ UNCHANGED <<filterVars, flattenVars, caseVars>>

\* step 8: the category reports, if any use case succeeded
CategoryReports ==
    /\ mpc = "categories"
    /\ IF Successful(results) # <<>>
       THEN /\ category_reports' =
                  [c \in 1..Len(CATEGORY_MAPPING) |->
                      build_category_from_central_assets(
                          files, CATEGORY_MAPPING[c].category, CATEGORY_MAPPING[c].usecases)]
            /\ warnings' =
                  UNION {Warnings(files, CATEGORY_MAPPING[c].usecases) :
                            c \in 1..Len(CATEGORY_MAPPING)}
       ELSE UNCHANGED <<category_reports, warnings>>
    /\ mpc' = "end"
    /\ UNCHANGED <<usecase_modules, mi, results, files, ai_response, label_to_df_map,
                   pie_segments, executive_report>>
    /\ UNCHANGED <<filterVars, flattenVars, caseVars>>

MainNext ==
    \/ Discover
    \/ ImportModule
    \/ RunAnalysis
    \/ BuildPieSegments
    \/ BuildLeakageReport
    \/ LoopEnds
    \/ ExecutiveReport
    \/ CategoryReports

SpecMain == Init /\ [][MainNext]_vars

Ended == mpc = "end"

\* ------------------------------------------------- properties of main()
\* the modules are the discovered ones in string order, and the records so
\* far are those of the modules before the current one, one each, in order
OneRecordEach ==
    /\ {usecase_modules[k] : k \in 1..Len(usecase_modules)} = Names
    /\ \A k \in 1..(Len(usecase_modules) - 1) :
          LexLess(usecase_modules[k], usecase_modules[k + 1])
    /\ Len(results) = mi - 1
    /\ mi <= Len(usecase_modules) + 1
    /\ \A k \in 1..Len(results) :
          /\ results[k].module = usecase_modules[k]
          /\ \/ results[k].status = "success" /\ results[k].loss \in LossValues
             \/ results[k].status = "failed" /\ results[k].error # ""

\* a step of the loop either stays with the current module or appends that
\* module's record and moves to the next one
LoopStep ==
    (mpc \in {"loop", "run", "segments", "report"} /\ mi <= Len(usecase_modules)) =>
        \/ /\ mpc' \in {"run", "segments", "report"}
           /\ mi' = mi
           /\ results' = results
        \/ /\ mpc' = "loop"
           /\ mi' = mi + 1
           /\ Len(results') = Len(results) + 1
           /\ SubSeq(results', 1, Len(results)) = results
           /\ results'[Len(results')].module = usecase_modules[mi]

\* C17: every discovered module is attempted once, one at a time, in sorted
\* order of the module names, and leaves one record, a success with its
\* figures or a failure with its error text; whatever fails, the loop moves
\* on to the next module.
C17_EveryModuleOnceInOrder ==
    /\ [](mpc # "start" => OneRecordEach)
    /\ [][LoopStep]_vars

\* a run that ended with a success recorded right after a failure
C17_Witness ==
    /\ Ended
    /\ Len(results) = NumModules
    /\ \E k \in 1..(Len(results) - 1) :
          results[k].status = "failed" /\ results[k + 1].status = "success"

\* the rows of the executive report are the successful use cases, each once
RowsAreTheSuccesses ==
    /\ Len(executive_report.rows) = Len(Successful(results))
    /\ {executive_report.rows[k] : k \in 1..Len(executive_report.rows)}
          = {Successful(results)[k].name : k \in 1..Len(Successful(results))}

\* C18: once the loop has ended and main() has run to its end, the
\* executive report has been produced and holds exactly the use cases
\* recorded as successful, for every combination of successes and failures.
C18_ExecutiveReportOfTheSuccesses ==
    Ended => executive_report.built /\ RowsAreTheSuccesses

\* the use cases of a category whose chart and summary are both there
WithAssets(usecase_list) ==
    SelectSeq(usecase_list, LAMBDA u : Chart(u) \in files /\ Summary(u) \in files)

\* every category report assembled is built from the use cases that have
\* both files, with a warning for each of the others
CategoriesSkipMissing ==
    \A c \in 1..Len(category_reports) :
        /\ category_reports[c].built
        /\ category_reports[c].sections = WithAssets(CATEGORY_MAPPING[c].usecases)
        /\ \A k \in 1..Len(CATEGORY_MAPPING[c].usecases) :
              LET u == CATEGORY_MAPPING[c].usecases[k]
              IN  (Chart(u) \notin files \/ Summary(u) \notin files) =>
                      \E w \in warnings : w[2] = u

\* C19: a report assembled while a chart or summary file is absent skips
\* the section, warns and is still produced: the category reports, and the
\* report of a use case, which exists once build_leakage_report has run.
C19_MissingFileSkipsSection ==
    /\ [](Ended => CategoriesSkipMissing)
    /\ [][mpc = "report" => Pdf(usecase_modules[mi]) \in files']_vars

\* an item that supplies the description of a label
Supplies(item, label) ==
    /\ item.isdict
    /\ ItemGet(item, "title", JStr(<<>>)).isstr
    /\ Strip(StripCount(ItemGet(item, "title", JStr(<<>>)).text)) = label

\* one segment for every label that has a table, in the order of the
\* labels, with the description of the last item that supplies one and ""
\* where none does
SegmentsCoverLabels ==
    /\ Len(pie_segments) = Cardinality(DOMAIN label_to_df_map)
    /\ \A k \in 1..Len(pie_segments) :
          /\ pie_segments[k].title = PIE_LABELS[KnownAt(label_to_df_map, PIE_LABELS)[k]]
          /\ LET from == {j \in 1..Len(ai_response.items) :
                             Supplies(ai_response.items[j], pie_segments[k].title)}
             IN  pie_segments[k].description =
                     IF from = {}
                     THEN JStr(<<>>)
                     ELSE ItemGet(ai_response.items[CHOOSE j \in from : \A i \in from : i <= j],
                                  "description", JStr(<<>>))

\* C20: whatever the narrative collaborator returned, build_pie_segments
\* does not fail and yields a segment for every known label, with the
\* description "" where no matching one was supplied.
C20_SegmentsWhateverTheNarrative ==
    [][mpc = "segments" => (mpc' = "report" /\ SegmentsCoverLabels')]_vars

\* ===================================================== the use cases' files
\* what each use case writes: its subdirectory of the run directory, the
\* name of its stored chart and summary, the chart and export files and
\* the PDF it writes in its subdirectory
usecase1 ==
    [output_dir   |-> "usecase_1",
     USECASE_NAME |-> "The_Zombie_Renewal",
     files        |-> {"The_Zombie_Renewal.png",
                       "zombie_leakage_contracts.xlsx",
                       "warning_subscriptions.xlsx",
                       "healthy_subscriptions.xlsx"},
     output_pdf   |-> "The_Zombie_Renewal.pdf"]

usecase2 ==
    [output_dir   |-> "usecase_2",
     USECASE_NAME |-> "The_Lost_Uplift",
     files        |-> {"healthy_orders.xlsx",
                       "renewal_none_orders.xlsx",
                       "zombie_contract_info.xlsx",
                       "Lost_Uplift_Distribution.png"},
     output_pdf   |-> "Lost_Uplift_Report.pdf"]

usecase3 ==
    [output_dir   |-> "usecase_3",
     USECASE_NAME |-> "The_Ghost_Order",
     files        |-> {"The_Ghost_Order.png",
                       "ghost_orders.xlsx",
                       "non_ghost_orders.xlsx"},
     output_pdf   |-> "The_Ghost_Order.pdf"]

usecase4 ==
    [output_dir   |-> "usecase_4",
     USECASE_NAME |-> "The_Threshold_Hugger",
     files        |-> {"The_Threshold_Hugger.png",
                       "healthy_quotes.xlsx",
                       "bypass_approval_quotes.xlsx",
                       "incorrect_discount_quotes.xlsx"},
     output_pdf   |-> "The_Threshold_Hugger.pdf"]

usecase5 ==
    [output_dir   |-> "usecase_5",
     USECASE_NAME |-> "The_Inactive_Sale",
     files        |-> {"The_Inactive_Sale.png",
                       "inactive_product_sales.xlsx",
                       "active_product_sales.xlsx"},
     output_pdf   |-> "The_Inactive_Sale.pdf"]

usecase6 ==
    [output_dir   |-> "usecase_6",
     USECASE_NAME |-> "Missing_Tax_Status",
     files        |-> {"Missing_Tax_Status.png",
                       "null_tax_exempt_status.xlsx",
                       "pending_tax_exempt_status.xlsx",
                       "non_exempt_tax_exempt_status.xlsx",
                       "exempt_tax_exempt_status.xlsx",
                       "not_applicable_tax_exempt_status.xlsx"},
     output_pdf   |-> "Missing_Tax_Status.pdf"]

usecase7 ==
    [output_dir   |-> "usecase_7",
     USECASE_NAME |-> "Zero_Quantity_Line",
     files        |-> {"Zero_Quantity_Line.png",
                       "zero_quantity_line_items.xlsx",
                       "other_line_items.xlsx"},
     output_pdf   |-> "Zero_Quantity_Line.pdf"]

usecase8 ==
    [output_dir   |-> "usecase_8",
     USECASE_NAME |-> "The_Eternal_Trial",
     files        |-> {"The_Eternal_Trial.png",
                       "eternal_trial_by_product_family_bar_chart.png",
                       "eternal_trial_line_items.xlsx",
                       "zero_price_short_term_line_items.xlsx",
                       "long_term_priced_contract_line_items.xlsx",
                       "short_term_priced_contract_line_items.xlsx"},
     output_pdf   |-> "The_Eternal_Trial.pdf"]

usecase9 ==
    [output_dir   |-> "usecase_9",
     USECASE_NAME |-> "The_Co_Term_Failure",
     files        |-> {"The_Co_Term_Failure.png",
                       "co_term_failure_contracts.xlsx",
                       "other_contracts.xlsx"},
     output_pdf   |-> "The_Co_Term_Failure.pdf"]

usecase10 ==
    [output_dir   |-> "usecase_10",
     USECASE_NAME |-> "Renewal_Without_Renewal_Quote",
     files        |-> {"Renewal_Without_Renewal_Quote.png",
                       "renewal_with_renewal_quote_opportunities.xlsx",
                       "renewal_without_renewal_quote_opportunities.xlsx"},
     output_pdf   |-> "Renewal_Without_Renewal_Quote.pdf"]

usecase11 ==
    [output_dir   |-> "usecase_11",
     USECASE_NAME |-> "The_Broken_Bundle",
     files        |-> {"The_Broken_Bundle.png",
                       "broken_bundle_line_items.xlsx",
                       "other_quote_lines.xlsx"},
     output_pdf   |-> "The_Broken_Bundle.pdf"]

usecase12 ==
    [output_dir   |-> "usecase_12",
     USECASE_NAME |-> "Discount_Without_Approval",
     files        |-> {"Discount_Without_Approval.png",
                       "discount_without_approval_quotes.xlsx",
                       "healthy_quotes.xlsx"},
     output_pdf   |-> "Discount_Without_Approval.pdf"]

usecase13 ==
    [output_dir   |-> "usecase_13",
     USECASE_NAME |-> "Missing_Billing_Frequency",
     files        |-> {"Missing_Billing_Frequency.png",
                       "missing_billing_frequency_quote_lines.xlsx",
                       "healthy_quote_lines.xlsx"},
     output_pdf   |-> "Missing_Billing_Frequency.pdf"]

usecase14 ==
    [output_dir   |-> "usecase_14",
     USECASE_NAME |-> "Unsynced_Primary_Quote",
     files        |-> {"Unsynced_Primary_Quote.png",
                       "unsynced_primary_quotes.xlsx",
                       "healthy_quote.xlsx"},
     output_pdf   |-> "Unsynced_Primary_Quote.pdf"]

usecase15 ==
    [output_dir   |-> "usecase_15",
     USECASE_NAME |-> "Expired_Subscription_Not_Renewed",
     files        |-> {"Expired_Subscription_Not_Renewed.png",
                       "expired_subscription_not_renewed_subscriptions.xlsx",
                       "healthy_subscriptions.xlsx"},
     output_pdf   |-> "Expired_Subscription_Not_Renewed.pdf"]

Usecases ==
    <<usecase1, usecase2, usecase3, usecase4, usecase5, usecase6, usecase7, usecase8,
      usecase9, usecase10, usecase11, usecase12, usecase13, usecase14, usecase15>>

\* main() runs the modules in the string order of their names
RunOrder == sorted([n \in 1..Len(Usecases) |-> Digits(n)])

NumberOf(digits) == IF Len(digits) = 1 THEN digits[1] ELSE 10 * digits[1] + digits[2]

\* faulty variant: the file is written in the run directory itself
OwnPath_RunDirectory(u, file) == <<"", file>>

\* os.path.join(output_dir, file)
OwnPath(u, file) == <<u.output_dir, file>>

\* os.path.join(data_chart_dir, f"{USECASE_NAME}.png")
StoredChart(u) == <<"Data_Chart", u.USECASE_NAME, ".png">>

\* os.path.join(data_summary_dir, f"{USECASE_NAME}.txt")
StoredSummary(u) == <<"Data_Summary", u.USECASE_NAME, ".txt">>

\* the paths run() writes: all of them, or all but the PDF when it fails
\* between the stored summary and build_leakage_report
Writes(u, stop) ==
    {OwnPath(u, f) : f \in u.files}
    \cup {StoredChart(u), StoredSummary(u)}
    \cup (IF stop = "end" THEN {OwnPath(u, u.output_pdf)} ELSE {})

\* the writers of every path, after one more use case wrote `paths`
Recorded(w, paths, module_name) ==
    [p \in DOMAIN w \cup paths |->
        (IF p \in DOMAIN w THEN w[p] ELSE {})
        \cup (IF p \in paths THEN {module_name} ELSE {})]

\* the next module of the run writes its files
UsecaseWrites ==
    /\ wi <= Len(RunOrder)
    /\ \E stop \in {"segments", "end"} :
          written' = Recorded(written,
                              Writes(Usecases[NumberOf(RunOrder[wi])], stop),
                              RunOrder[wi])
    /\ wi' = wi + 1
    /\ UNCHANGED <<filterVars, flattenVars, mainVars, segVars>>

FilesNext == UsecaseWrites

SpecFiles == Init /\ [][FilesNext]_vars

\* C21: no two use cases write the same path in one run: every path
\* written has one writer, and it lies in that use case's own subdirectory
\* usecase_N, which no other use case has, or is a file of Data_Chart or
\* Data_Summary.
C21_NoPathWrittenTwice ==
    /\ \A m, n \in 1..Len(Usecases) :
          m # n => Usecases[m].output_dir # Usecases[n].output_dir
    /\ \A p \in DOMAIN written :
          \E n \in 1..Len(Usecases) :
              /\ written[p] = {Digits(n)}
              /\ p[1] \in {Usecases[n].output_dir, "Data_Chart", "Data_Summary"}

\* all fifteen use cases ran to their end: each PDF and stored chart is there
C21_Witness ==
    /\ wi > Len(RunOrder)
    /\ \A n \in 1..Len(Usecases) :
          /\ OwnPath(Usecases[n], Usecases[n].output_pdf) \in DOMAIN written
          /\ StoredChart(Usecases[n]) \in DOMAIN written

\* ==================================== further properties of apply_filters
\* the example of the docstring of apply_filters, over the two columns:
\* {Status: value, Amount: {"lte": bound}}; its null test on a third column
\* uses a recognized operator and is left out
DocstringExample(F) ==
    /\ Len(F) = 2
    /\ ~F[1].isdict /\ F[1].column = "Status" /\ F[1].value # Null
    /\ F[2].isdict /\ F[2].column = "Amount"
    /\ Len(F[2].ops) = 1 /\ F[2].ops[1].op = "lte"

\* C22: apply_filters accepts the filter given as the example in its own
\* docstring and returns the rows with the given Status whose value is at
\* most the bound given under "lte".
C22_DocstringExampleAccepted ==
    (Done /\ DocstringExample(filters) /\ OverColumns(df, filters)) =>
        /\ result.raised = ""
        /\ \A i \in 1..Len(df.index) :
              df.index[i] \in IndexSet(result) <=>
                  /\ df.data[i]["Status"] = filters[1].value
                  /\ df.data[i]["Amount"] # Null
                  /\ df.data[i]["Amount"][1] <= filters[2].ops[1].value[1]

\* ================================================ the use cases' segments
\* the segments of a use case, once every apply_filters call returned; the
\* first error raised ends run()
Computed(names, returned) ==
    IF \E k \in 1..Len(returned) : returned[k].raised # ""
    THEN [raised |-> returned[CHOOSE k \in 1..Len(returned) :
                                 /\ returned[k].raised # ""
                                 /\ \A j \in 1..(k - 1) : returned[j].raised = ""].raised,
          segs   |-> <<>>]
    ELSE [raised |-> "",
          segs   |-> [n \in {names[k] : k \in 1..Len(names)} |->
                         returned[CHOOSE k \in 1..Len(names) : names[k] = n]]]

\* faulty variant: a repeated key adds a second entry
Put_KeepsBoth(d, item) == Append(d, item)

\* one key: value of a dict display: a key seen before keeps its place and
\* takes the new value
Put(d, item) ==
    IF \E k \in 1..Len(d) : d[k].column = item.column
    THEN [k \in 1..Len(d) |-> IF d[k].column = item.column THEN item ELSE d[k]]
    ELSE Append(d, item)

\* the dict a display {k1: v1, k2: v2, ...} evaluates to
RECURSIVE DictLiteral(_)
DictLiteral(items) ==
    IF items = <<>> THEN <<>>
    ELSE Put(DictLiteral(SubSeq(items, 1, Len(items) - 1)), items[Len(items)])

\* --------------------------------------------- usecase4, Threshold Hugger
\* discounts are counted in hundredths of a percent: 19.01 is 1901
healthy_filters ==
    DictLiteral(<<Dict("Average Customer Discount",
                       <<Entry(">=", Val(0), <<>>), Entry("<=", Val(1900), <<>>)>>),
                  Dict("Average Customer Discount",
                       <<Entry(">=", Val(2000), <<>>), Entry("<=", Val(10000), <<>>)>>)>>)

bypass_approval_filters ==
    DictLiteral(<<Dict("Average Customer Discount",
                       <<Entry(">=", Val(1901), <<>>), Entry("<=", Val(1999), <<>>)>>)>>)

incorrect_discount_filters ==
    DictLiteral(<<Dict("Average Customer Discount", <<Entry("<", Val(0), <<>>)>>)>>)

\* a quote as queried and renamed: its discount, which may be empty
Discounts == {Null} \cup {Val(v) : v \in {0 - 1, 0, 1900, 1950, 2000, 10001}}

QuoteLists == SeqsUpTo({[c \in {"Average Customer Discount"} |-> d] : d \in Discounts}, MaxRows)

\* an empty query result has no column to drop: df.drop raises KeyError
usecase4_segments(t) ==
    IF "Average Customer Discount" \notin t.columns
    THEN [raised |-> "KeyError", segs |-> <<>>]
    ELSE Computed(<<"healthy_df", "bypass_approval_df", "incorrect_discount_df">>,
                  <<apply_filters(t, healthy_filters),
                    apply_filters(t, bypass_approval_filters),
                    apply_filters(t, incorrect_discount_filters)>>)

ThresholdHugger ==
    /\ upc = "start"
    /\ \E records \in QuoteLists :
          /\ uargs' = [df |-> records_to_df(records)]
          /\ usegs' = usecase4_segments(records_to_df(records))
    /\ ucase' = "usecase4"
    /\ upc' = "done"
    /\ UNCHANGED upie
    /\ UNCHANGED <<filterVars, flattenVars, mainVars, fileVars>>

\* ------------------------- usecase3, Ghost Order; usecase5, Inactive Sale
\* faulty variant: no row is taken for a row of the first segment
NotIsin_KeepsAll(t, other) == [i \in 1..Len(t.index) |-> TRUE]

\* ~df.index.isin(other.index)
NotIsin(t, other) == [i \in 1..Len(t.index) |-> t.index[i] \notin IndexSet(other)]

\* the first segment by the filter, the second the rows whose label is not
\* in the first
Residual(t, F, names) ==
    Computed(names,
             <<apply_filters(t, F),
               Returned(Loc(t, NotIsin(t, apply_filters(t, F))))>>)

\* {"ActivatedDate": {"<=": bound}, "Status": ..., ...} for every bound,
\* and the filters of one condition
GhostFilters ==
    {<<Dict("Amount", <<Entry("<=", v, <<>>)>>), Bare("Status", Val(1))>> : v \in Values}
    \cup {<<Dict("Amount", <<Entry("<=", v, <<>>)>>),
            Dict("Status", <<Entry("isna", Val(1), <<>>)>>)>> : v \in Values}

\* {"Product IsActive": {"=": False}}, and every other filter of one condition
SaleFilters == {<<>>} \cup {<<x>> : x \in AmountConditions \cup StatusConditions}

GhostOrder ==
    /\ upc = "start"
    /\ \E records \in RecordLists, F \in GhostFilters :
          /\ uargs' = [df |-> records_to_df(records), filters |-> F]
          /\ usegs' = Residual(records_to_df(records), F,
                               <<"ghost_orders_df", "non_ghost_orders_df">>)
    /\ ucase' = "usecase3"
    /\ upc' = "done"
    /\ UNCHANGED upie
    /\ UNCHANGED <<filterVars, flattenVars, mainVars, fileVars>>

InactiveSale ==
    /\ upc = "start"
    /\ \E records \in RecordLists, F \in SaleFilters :
          /\ uargs' = [df |-> records_to_df(records), filters |-> F]
          /\ usegs' = Residual(records_to_df(records), F,
                               <<"inactive_sale_df", "active_sale_df">>)
    /\ ucase' = "usecase5"
    /\ upc' = "done"
    /\ UNCHANGED upie
    /\ UNCHANGED <<filterVars, flattenVars, mainVars, fileVars>>

\* ------------------------------------------------ usecase1, Zombie Renewal
\* dates are counted in days.  leakage_zombies reads today at the call
leakage_zombies(t, today) ==
    Loc(t, MaskAnd(MaskAnd(SeriesLe(Column(t, "EndDate"), Val(today - 30)),
                           SeriesEq(Column(t, "Status"), Val("Activated"))),
                   SeriesIsna(Column(t, "SBQQ__RenewalOpportunity__c"), Null)))

\* expiring_soon_contracts reads the module's `today`, set at the import
expiring_soon_contracts(t, today) ==
    Loc(t, MaskAnd(MaskAnd(SeriesGe(Column(t, "EndDate"), Val(today - 30)),
                           SeriesEq(Column(t, "Status"), Val("Activated"))),
                   SeriesIsna(Column(t, "SBQQ__RenewalOpportunity__c"), Null)))

\* df.index.isin(other.index)
Isin(t, other) == [i \in 1..Len(t.index) |-> t.index[i] \in IndexSet(other)]

\* the wedges of zombie_analysis_chart
zombie_analysis_chart(df_all_contracts, df_zombie_contracts, df_expiring_soon) ==
    [healthy_count |-> Len(df_all_contracts.index) - Len(df_zombie_contracts.index)
                          - Len(df_expiring_soon.index),
     warning_count |-> Len(df_expiring_soon.index),
     zombie_count  |-> Len(df_zombie_contracts.index)]

\* the first table classifies, the second, of the detail query, is split by
\* the row labels of the first; an empty first result has no EndDate column
\* to normalize
usecase1_segments(t, detail, import_day, call_day) ==
    IF "EndDate" \notin t.columns
    THEN [raised |-> "KeyError", segs |-> <<>>]
    ELSE LET leakage_df == leakage_zombies(t, call_day)
             expiring_soon_contracts_df == expiring_soon_contracts(t, import_day)
         IN  [raised |-> "",
              chart  |-> zombie_analysis_chart(t, leakage_df, expiring_soon_contracts_df),
              segs   |->
                [leakage_df                 |-> Returned(leakage_df),
                 expiring_soon_contracts_df |-> Returned(expiring_soon_contracts_df),
                 leakage_df_details         |->
                    Returned(Loc(detail, Isin(detail, leakage_df))),
                 expiring_soon_df_details   |->
                    Returned(Loc(detail, Isin(detail, expiring_soon_contracts_df))),
                 healthy_df                 |->
                    Returned(Loc(detail,
                                 MaskAnd(NotIsin(detail, leakage_df),
                                         NotIsin(detail, expiring_soon_contracts_df))))]]

\* end dates around the thirtieth day before the days 31 and 32
EndDates == {Null} \cup {Val(d) : d \in 0..2}

ContractFields ==
    {[EndDate |-> e, Status |-> x[1], SBQQ__RenewalOpportunity__c |-> x[2]] :
        e \in EndDates,
        x \in {<<Val("Activated"), Null>>, <<Val("Activated"), Val("006")>>,
               <<Val("Draft"), Null>>}}

\* the contracts as the first query returns them; the Id of a contract is
\* its place in that result
FirstQuery ==
    {[i \in 1..Len(q) |-> [c \in DOMAIN q[i] \cup {"Id"} |->
                              IF c = "Id" THEN Val(i) ELSE q[i][c]]] :
        q \in SeqsUpTo(ContractFields, MaxRows)}

\* the contracts of the detail query, renamed: any of the contracts, and
\* contracts created in between, in any order
DetailQuery ==
    {[i \in 1..Len(q) |-> [c \in {"Contract Id"} |-> Val(q[i])]] :
        q \in {r \in SeqsUpTo(1..MaxRows, MaxRows) :
                  \A i, j \in 1..Len(r) : r[i] = r[j] => i = j}}

ZombieRenewal ==
    /\ upc = "start"
    /\ \E records \in FirstQuery, details \in DetailQuery, call_day \in {31, 32} :
          /\ uargs' = [df     |-> records_to_df(records),
                       detail |-> records_to_df(details),
                       today  |-> call_day]
          /\ usegs' = usecase1_segments(records_to_df(records), records_to_df(details),
                                        31, call_day)
    /\ ucase' = "usecase1"
    /\ upc' = "done"
    /\ UNCHANGED upie
    /\ UNCHANGED <<filterVars, flattenVars, mainVars, fileVars>>

\* ------------------------------------------------- the pie overview
\* PIE_LABELS and PIE_COLORS of a use case, the tables behind the wedges of
\* its chart in label order, and the label_to_df_map it passes to
\* build_pie_segments
usecase3_pie ==
    [PIE_LABELS      |-> <<<<"Non-Ghost Orders">>, <<"Ghost Orders">>>>,
     PIE_COLORS      |-> <<"#88E788", "#FA5053">>,
     values          |-> <<"non_ghost_orders_df", "ghost_orders_df">>,
     label_to_df_map |-> (<<"Non-Ghost Orders">> :> "non_ghost_orders_df")
                         @@ (<<"Ghost Orders">> :> "ghost_orders_df")]

usecase4_pie ==
    [PIE_LABELS      |-> <<<<"Healthy Quotes">>, <<"Bypass Approval Quotes">>,
                           <<"Incorrect Discount Quotes">>>>,
     PIE_COLORS      |-> <<"#88E788", "#FFCC77", "#FA5053">>,
     values          |-> <<"healthy_df", "bypass_approval_df", "incorrect_discount_df">>,
     label_to_df_map |-> (<<"Healthy Quotes">> :> "healthy_df")
                         @@ (<<"Bypass Approval Quotes">> :> "bypass_approval_df")]

usecase5_pie ==
    [PIE_LABELS      |-> <<<<"Inactive Product Sales">>, <<"Active Product Sales">>>>,
     PIE_COLORS      |-> <<"#FA5053", "#88E788">>,
     values          |-> <<"inactive_sale_df", "active_sale_df">>,
     label_to_df_map |-> (<<"Inactive Product Sales">> :> "inactive_sale_df")
                         @@ (<<"Active Product Sales">> :> "active_sale_df")]

PieOf(case) ==
    CASE case = "usecase3" -> usecase3_pie
      [] case = "usecase4" -> usecase4_pie
      [] case = "usecase5" -> usecase5_pie

\* len(df) for every label of label_to_df_map
LabelCounts(pie, segs) ==
    [label \in DOMAIN pie.label_to_df_map |-> Len(segs[pie.label_to_df_map[label]].index)]

\* what the narrative call returned: no item, one item titled as the first
\* label with its count, or no list at all
Narratives(pie) ==
    {[kind |-> "list", items |-> <<>>],
     [kind |-> "list",
      items |-> <<JObject(("title" :> JStr(pie.PIE_LABELS[1] \o <<" ", "(n)">>))
                          @@ ("description" :> JStr(<<"A">>)))>>],
     [kind |-> "scalar", items |-> <<>>]}

\* the call of build_pie_segments in run()
PieOverview ==
    /\ upc = "done"
    /\ ucase \in {"usecase3", "usecase4", "usecase5"}
    /\ usegs.raised = ""
    /\ \E out \in Narratives(PieOf(ucase)) :
          upie' = build_pie_segments(out, LabelCounts(PieOf(ucase), usegs.segs),
                                     PieOf(ucase).PIE_LABELS, PieOf(ucase).PIE_COLORS)
    /\ upc' = "pie"
    /\ UNCHANGED <<ucase, uargs, usegs>>
    /\ UNCHANGED <<filterVars, flattenVars, mainVars, fileVars>>

SegmentsNext ==
    \/ ThresholdHugger
    \/ GhostOrder
    \/ InactiveSale
    \/ ZombieRenewal
    \/ PieOverview

SpecSegments == Init /\ [][SegmentsNext]_vars

\* the discount of row i of the table of the use case
Discount(i) == uargs.df.data[i]["Average Customer Discount"]

\* C23: in the Threshold Hugger use case the healthy filter, written with
\* one key twice, is evaluated with the last entry only: the Healthy segment
\* is exactly the rows with 20 <= discount <= 100, and a row with
\* 0 <= discount <= 19 is in none of the three segments.
C23_HealthyIsTheLastEntry ==
    (upc = "done" /\ ucase = "usecase4" /\ usegs.raised = "") =>
        \A i \in 1..Len(uargs.df.index) :
            /\ uargs.df.index[i] \in IndexSet(usegs.segs["healthy_df"]) <=>
                  (Discount(i) # Null /\ Discount(i)[1] >= 2000 /\ Discount(i)[1] <= 10000)
            /\ (Discount(i) # Null /\ Discount(i)[1] >= 0 /\ Discount(i)[1] <= 1900) =>
                  \A n \in DOMAIN usegs.segs : uargs.df.index[i] \notin IndexSet(usegs.segs[n])

\* a quote at 19 percent beside one at 20: the first in no segment, the
\* second healthy
C23_Witness ==
    /\ upc = "done" /\ ucase = "usecase4" /\ usegs.raised = ""
    /\ Len(uargs.df.index) = 2
    /\ Discount(1) = Val(1900) /\ Discount(2) = Val(2000)
    /\ IndexSet(usegs.segs["healthy_df"]) = {uargs.df.index[2]}

\* C24: where the second segment is built as the residual of the first by
\* row label (Ghost Order, Inactive Sale), the two segments are disjoint and
\* their sizes sum to the number of rows of the table, for every table of
\* records_to_df and every filter that returns.
C24_ResidualSegmentsPartition ==
    /\ (upc = "done" /\ ucase = "usecase3" /\ usegs.raised = "") =>
          Partition(uargs.df, usegs.segs["ghost_orders_df"], usegs.segs["non_ghost_orders_df"])
    /\ (upc = "done" /\ ucase = "usecase5" /\ usegs.raised = "") =>
          Partition(uargs.df, usegs.segs["inactive_sale_df"], usegs.segs["active_sale_df"])

\* two orders, one of them a ghost order, the other in the residual
C24_Witness ==
    /\ upc = "done" /\ ucase = "usecase3" /\ usegs.raised = ""
    /\ Len(uargs.df.index) = 2
    /\ Len(usegs.segs["ghost_orders_df"].index) = 1
    /\ Len(usegs.segs["non_ghost_orders_df"].index) = 1

\* C25: the pie segments handed to the report have one entry per pie label,
\* in label order, each with the row count of the table behind that wedge
\* and the color at the label's position ("#CCCCCC" past the end of the
\* colors): no computed segment is missing from the overview.
C25_OneSegmentPerLabel ==
    (upc = "pie" /\ upie.raised = "") =>
        LET pie == PieOf(ucase)
        IN  /\ Len(upie.segments) = Len(pie.PIE_LABELS)
            /\ \A k \in 1..Len(upie.segments) :
                  /\ upie.segments[k].title = pie.PIE_LABELS[k]
                  /\ upie.segments[k].count = Len(usegs.segs[pie.values[k]].index)
                  /\ upie.segments[k].color =
                        IF k <= Len(pie.PIE_COLORS) THEN pie.PIE_COLORS[k] ELSE "#CCCCCC"

\* the Ids of the rows of a table
IdsOf(r, column) == {r.data[k][column] : k \in 1..Len(r.data)}

\* the detail query returned the contracts of the first query, in its order
SameContracts ==
    /\ Len(uargs.detail.index) = Len(uargs.df.index)
    /\ \A i \in 1..Len(uargs.df.index) :
          uargs.detail.data[i]["Contract Id"] = uargs.df.data[i]["Id"]

\* C26: in the Zombie Renewal use case leakage_zombies and
\* expiring_soon_contracts never select the same contract, whatever the
\* table and the date; hence, when the detail query returns the same
\* contracts, the three tables' sizes sum to the number of contracts and the
\* chart's healthy count is the number of rows of the healthy table.
C26_ZombiesAndExpiringDisjoint ==
    (upc = "done" /\ ucase = "usecase1" /\ usegs.raised = "") =>
        /\ IndexSet(usegs.segs["leakage_df"])
              \cap IndexSet(usegs.segs["expiring_soon_contracts_df"]) = {}
        /\ SameContracts =>
              /\ Len(usegs.segs["healthy_df"].index)
                    + Len(usegs.segs["leakage_df_details"].index)
                    + Len(usegs.segs["expiring_soon_df_details"].index)
                    = Len(uargs.df.index)
              /\ usegs.chart.healthy_count = Len(usegs.segs["healthy_df"].index)

\* the contracts the first table put in a segment
Classified(name) == IdsOf(usegs.segs[name], "Id")

\* C30: in the Zombie Renewal use case the detail rows exported as zombie,
\* expiring-soon and healthy contracts are the contracts (by Id) that the
\* filters classified that way on the first query's table, in whatever
\* order the two queries return the contracts.
C30_DetailRowsAreTheClassifiedContracts ==
    (/\ upc = "done" /\ ucase = "usecase1" /\ usegs.raised = ""
     /\ IdsOf(uargs.detail, "Contract Id") = IdsOf(uargs.df, "Id")) =>
        /\ IdsOf(usegs.segs["leakage_df_details"], "Contract Id") = Classified("leakage_df")
        /\ IdsOf(usegs.segs["expiring_soon_df_details"], "Contract Id")
              = Classified("expiring_soon_contracts_df")
        /\ IdsOf(usegs.segs["healthy_df"], "Contract Id")
              = IdsOf(uargs.df, "Id")
                   \ (Classified("leakage_df") \cup Classified("expiring_soon_contracts_df"))

\* ======================================== further properties of main()
\* C27: every use-case section of a category report belongs to a use case
\* recorded as "success": a use case recorded as "failed" contributes no
\* chart and summary to a category report, wherever its run() failed.
C27_SectionsOfSuccessesOnly ==
    Ended =>
        \A c \in 1..Len(category_reports) :
            \A k \in 1..Len(category_reports[c].sections) :
                \E j \in 1..Len(results) :
                    /\ results[j].module = category_reports[c].sections[k]
                    /\ results[j].status = "success"

\* the loss a successful use case reported, None counting as 0
LossOf(name) ==
    LET r == Successful(results)[CHOOSE j \in 1..Len(Successful(results)) :
                                     Successful(results)[j].name = name]
    IN  IF r.loss = Null THEN 0 ELSE r.loss[1]

\* C28: the executive summary table lists the successful use cases in
\* non-increasing order of loss with serial numbers 1..n in that order, a
\* missing loss counting as 0, and gives each row one risk category: High
\* iff loss > 100000, Medium iff 50000 < loss <= 100000, Low otherwise; the
\* report ticks exactly the column of that category, R, A or G.
C28_ExecutiveTableSortedAndClassified ==
    executive_report.built =>
        LET t == executive_report.table
        IN  /\ Len(t) = Len(Successful(results))
            /\ {t[k].name : k \in 1..Len(t)}
                  = {Successful(results)[j].name : j \in 1..Len(Successful(results))}
            /\ \A k \in 1..Len(t) :
                  /\ t[k].sno = k
                  /\ t[k].loss = LossOf(t[k].name)
                  /\ k < Len(t) => t[k].loss >= t[k + 1].loss
                  /\ t[k].risk = "High" <=> t[k].loss > 100000
                  /\ t[k].risk = "Medium" <=> (t[k].loss > 50000 /\ t[k].loss <= 100000)
                  /\ t[k].risk = "Low" <=> t[k].loss <= 50000
                  /\ t[k].R <=> t[k].risk = "High"
                  /\ t[k].A <=> t[k].risk = "Medium"
                  /\ t[k].G <=> t[k].risk = "Low"
                  /\ Cardinality({x \in {"R", "A", "G"} : t[k][x]}) = 1

\* three successes with losses of None, exactly 100000 and 150000, listed
\* as High, Medium, Low
C28_Witness ==
    /\ Ended
    /\ Len(executive_report.table) = 3
    /\ executive_report.table[1].risk = "High"
    /\ executive_report.table[2].loss = 100000 /\ executive_report.table[2].A
    /\ executive_report.table[3].loss = 0 /\ executive_report.table[3].G
    /\ \E j \in 1..Len(results) : results[j].status = "success" /\ results[j].loss = Null

\* ------------------------------------------- apply_filters as a conjunction
\* the table a returned result holds
TableOf(r) == [columns |-> r.columns, index |-> r.index, data |-> r.data]

\* apply_filters(apply_filters(t, F1), F2)
Composed(t, F1, F2) ==
    LET first == apply_filters(t, F1)
    IN  IF first.raised # "" THEN first ELSE apply_filters(TableOf(first), F2)

\* a filter with its columns, and the operators of each column, listed in
\* the opposite order
Reversed(F) ==
    [k \in 1..Len(F) |->
        LET item == F[Len(F) + 1 - k]
        IN  [item EXCEPT !.ops = [j \in 1..Len(item.ops) |-> item.ops[Len(item.ops) + 1 - j]]]]

\* the same table, or a failure in both
SameTableOrBothFail(r1, r2) ==
    IF r1.raised = "" \/ r2.raised = "" THEN r1 = r2 ELSE TRUE

\* C29 as claimed: filtering by F1 and then by F2, over different columns,
\* equals filtering by the merged filter, and the result of apply_filters
\* does not depend on the order of the columns or of the operators of a
\* column.
C29_PureConjunction ==
    Done =>
        /\ (Len(filters) = 2 /\ filters[1].column # filters[2].column) =>
              result = Composed(df, <<filters[1]>>, <<filters[2]>>)
        /\ result = apply_filters(df, Reversed(filters))

\* C29, amended: the composition equals the merged filter, errors included;
\* listed in another order, the filter returns the same table or fails as
\* well, possibly with the error of another condition.
C29_ConjunctionUpToTheErrorRaised ==
    Done =>
        /\ (Len(filters) = 2 /\ filters[1].column # filters[2].column) =>
              result = Composed(df, <<filters[1]>>, <<filters[2]>>)
        /\ SameTableOrBothFail(result, apply_filters(df, Reversed(filters)))

\* two conditions on different columns that each keep a row the other drops
C29_Witness ==
    /\ Done
    /\ Len(filters) = 2 /\ filters[1].column # filters[2].column
    /\ result.raised = ""
    /\ apply_filters(df, <<filters[1]>>).raised = ""
    /\ apply_filters(df, <<filters[2]>>).raised = ""
    /\ Len(result.index) < Len(apply_filters(df, <<filters[1]>>).index)
    /\ Len(result.index) < Len(apply_filters(df, <<filters[2]>>).index)
    /\ result = apply_filters(df, Reversed(filters))

====
